---- MODULE Spec2Model ----
(***************************************************************************)
(* Posture monitor: the background script's alerting state machine         *)
(* (src/src/background/background.js).  Time is Date.now() in              *)
(* milliseconds; settings carry seconds; snooze durations are minutes.     *)
(***************************************************************************)
EXTENDS Integers, Sequences, FiniteSets, TLC

VARIABLES
    now,                    \* Date.now()
    currentSettings,        \* background.js: let currentSettings
    lastAlertTime,          \* background.js: let lastAlertTime = 0
    poorPostureStartTime,   \* background.js: let poorPostureStartTime = null
    sessionStats,           \* background.js: let sessionStats = {...}
    op,                     \* history: the message handled by the last step
    fired,                  \* history: status of the notification created by the last step
    lastFiredAt,            \* history: per status, when a notification was last created
    snoozedUntil,           \* history: the snoozedUntil the last snooze_alerts call returned
    snoozedSince,           \* history: snooze_alerts was handled since the last notification
    poorSince,              \* history: first of the latest consecutive Poor evaluations
    prevPoorStart,          \* history: poorPostureStartTime before the last evaluation
    offSince,               \* history: first of the latest consecutive Warning/Poor
                            \*          evaluations made while alerts were disabled
    offPoorSince,           \* history: first of the latest consecutive Poor
                            \*          evaluations made while alerts were disabled
    offPoorReached,         \* history: before the last evaluation, that disabled Poor run
                            \*          had lasted at least the duration threshold
    nControl,               \* history: update_settings and snooze_alerts messages handled
    analyzerSettings,       \* poseAnalyzer.js: this.settings
    smoothedMetrics,        \* poseAnalyzer.js: this.smoothedMetrics
    analysis,               \* what the last analyzePose call returned (or that it threw)
    lastPose,               \* history: the pose handed to the last analyzePose call
    prevSmoothed,           \* history: this.smoothedMetrics before the last analyzePose call
    aop,                    \* history: the last PoseAnalyzer method called
    nFrames,                \* history: analyzePose calls made
    nSmoothed,              \* history: analyzePose calls that returned a result since
                            \*          construction or the last reset
    nAnalyzerControl,       \* history: updateSettings and reset calls made
    lastAnalysis,           \* PostureMonitorApp: this.lastAnalysis
    storedSettings,         \* browser.storage.local: the value under StorageKeys.SETTINGS
    pendingSaves,           \* saveSettings calls waiting for browser.storage.local.set,
                            \*   oldest first
    loadedSettings,         \* history: the settings initialize() put in force
    updatesIssued,          \* history: the data of the update_settings messages received
    detectionWindow,        \* background.js: let detectionWindow = null
    openWindows,            \* the detection windows that exist in the browser
    cameraStreams,          \* the detection windows whose page holds a camera stream
    pendingCreates,         \* browser.windows.create calls not yet resolved
    pendingRemoves,         \* window ids of browser.windows.remove calls not yet
                            \*   resolved, oldest first
    windowsCreated,         \* history: detection windows created so far (their ids
                            \*   are 1..windowsCreated)
    savedSessions,          \* sessions appended to the stored statistics
    nMonitoring,            \* history: start_monitoring and stop_monitoring messages received
    manager,                \* detection.js: the fields of the DetectionManager instance
    pageEnv,                \* the detection page's outstanding browser calls, its worker,
                            \*   and history: frames posted, camera failure seen
    call,                   \* a function of the analyzer and the arguments it is applied to
    ret                     \* what that function returned

histVars == <<lastFiredAt, snoozedUntil, snoozedSince, poorSince, prevPoorStart,
              offSince, offPoorSince, offPoorReached>>

analyzerVars == <<analyzerSettings, smoothedMetrics, analysis, lastPose, prevSmoothed,
                  aop, nFrames, nSmoothed, nAnalyzerControl>>

backgroundVars == <<currentSettings, lastAlertTime, poorPostureStartTime, sessionStats,
                    op, fired, histVars, nControl>>

settingsVars == <<storedSettings, pendingSaves, loadedSettings, updatesIssued>>

monitorVars == <<detectionWindow, openWindows, cameraStreams, pendingCreates,
                 pendingRemoves, windowsCreated, savedSessions, nMonitoring>>

pageVars == <<manager, pageEnv>>

appVars == <<lastAnalysis, settingsVars, monitorVars, pageVars>>

vars == <<now, backgroundVars, analyzerVars, appVars, call, ret>>

codeVars == <<currentSettings, lastAlertTime, poorPostureStartTime, sessionStats>>

-----------------------------------------------------------------------------
(* Program constants (src/utils/constants.js, pinned by constants.test.js) *)

Time_SECOND == 1000
Time_MINUTE == 60000

GOOD    == "good"
WARNING == "warning"
POOR    == "poor"
UNKNOWN == "unknown"

PostureStatus == {GOOD, WARNING, POOR}

\* null / undefined of a timestamp slot.  JavaScript coerces null to 0 in
\* arithmetic and treats both as falsy, which is what the code relies on.
Null == 0

\* NaN: the value of parseInt('') for a cleared number field, and of any
\* arithmetic on an absent (undefined) number.  Every comparison with it is false.
NaN == -999999999

IsNaN(x) == x = NaN

Sub(a, b) == IF IsNaN(a) \/ IsNaN(b) THEN NaN ELSE a - b
Add(a, b) == IF IsNaN(a) \/ IsNaN(b) THEN NaN ELSE a + b
Mul(a, b) == IF IsNaN(a) \/ IsNaN(b) THEN NaN ELSE a * b
Lt(a, b)  == ~IsNaN(a) /\ ~IsNaN(b) /\ a < b
Gt(a, b)  == ~IsNaN(a) /\ ~IsNaN(b) /\ a > b
Ge(a, b)  == ~IsNaN(a) /\ ~IsNaN(b) /\ a >= b

-----------------------------------------------------------------------------
(* Bounds of the model *)

\* number of clock advances explored
MaxTicks == 3

\* number of update_settings and snooze_alerts messages explored
MaxControl == 2

\* number of notifications explored (sessionStats.alertCount has no bound in the code)
MaxAlerts == 2

\* the clock when the background script is loaded (a Date.now() value)
Epoch == 1000 * 1000 * Time_SECOND

\* the clock advance between two handled messages, in ms
TickMs == 30 * Time_SECOND

\* values an update_settings message supplies
DurationInputs == {60, NaN, 0}
CooldownInputs == {0, 30, NaN, 3601}
SnoozeInputs   == {1}

-----------------------------------------------------------------------------
(* Settings *)

getDefaultSettings ==
    [ thresholds |-> [poorPostureDuration |-> 30],
      alerts     |-> [enabled |-> TRUE, cooldown |-> 300] ]

\* validateSettings, the fields the alert path reads
validateSettings(settings) ==
    LET d == settings.thresholds.poorPostureDuration
        c == settings.alerts.cooldown
    IN  /\ ~(Lt(d, 1) \/ Gt(d, 600))
        /\ ~(Lt(c, 0) \/ Gt(c, 3600))

-----------------------------------------------------------------------------
(* handlePostureUpdate and triggerAlert *)

\* variant: the master switch is not consulted
AlertsEnabled_ignored == TRUE

\* triggerAlert: `if (!currentSettings.alerts.enabled) return`
AlertsEnabled == currentSettings.alerts.enabled

\* triggerAlert: const cooldownMs = currentSettings.alerts.cooldown * Time.SECOND
cooldownMs == Mul(currentSettings.alerts.cooldown, Time_SECOND)

\* variant: the cooldown in seconds is compared with milliseconds
CooldownElapsed_seconds == ~Lt(Sub(now, lastAlertTime), currentSettings.alerts.cooldown)

\* triggerAlert: the cooldown test `if (now - lastAlertTime < cooldownMs) return` is passed
CooldownElapsed == ~Lt(Sub(now, lastAlertTime), cooldownMs)

\* triggerAlert(status, ...): both early returns are passed.  The status plays
\* no part in either test: one lastAlertTime serves every status.
TriggerAlertPasses(status) == AlertsEnabled /\ CooldownElapsed

\* variant: the timer survives a reading that is not Poor
NextPoorStart_keptOnImprove(status) ==
    IF status = POOR
    THEN IF poorPostureStartTime = Null THEN now ELSE poorPostureStartTime
    ELSE poorPostureStartTime

\* variant: a Warning reading runs the timer as a Poor reading does
NextPoorStart_warningCounts(status) ==
    IF status \in {POOR, WARNING}
    THEN IF poorPostureStartTime = Null THEN now ELSE poorPostureStartTime
    ELSE Null

\* variant: the timer is left alone while alerts are disabled
NextPoorStart_onlyWhenEnabled(status) ==
    IF ~currentSettings.alerts.enabled THEN poorPostureStartTime
    ELSE IF status = POOR
         THEN IF poorPostureStartTime = Null THEN now ELSE poorPostureStartTime
         ELSE Null

\* handlePostureUpdate: poorPostureStartTime after `if (!poorPostureStartTime) ...`
\* for a Poor reading, and after the else branch for any other reading
NextPoorStart(status) ==
    IF status = POOR
    THEN IF poorPostureStartTime = Null THEN now ELSE poorPostureStartTime
    ELSE Null

\* variant: the duration in milliseconds is compared with the threshold in seconds
DurationReached_unscaled(start) ==
    Ge(Sub(now, start), currentSettings.thresholds.poorPostureDuration)

\* variant: the threshold has to be exceeded
DurationReached_strict(start) ==
    Gt(Sub(now, start), Mul(currentSettings.thresholds.poorPostureDuration, Time_SECOND))

\* handlePostureUpdate: (now - poorPostureStartTime) / Time.SECOND >= durationThreshold,
\* with both sides multiplied by Time.SECOND
DurationReached(start) ==
    Ge(Sub(now, start), Mul(currentSettings.thresholds.poorPostureDuration, Time_SECOND))

\* handlePostureUpdate: `if (status === PostureStatus.POOR)`, the only branch
\* that reaches triggerAlert
AlertingStatus(status) == status = POOR

\* whether this evaluation creates a notification
Fires(status) ==
    /\ AlertingStatus(status)
    /\ DurationReached(NextPoorStart(status))
    /\ TriggerAlertPasses(status)

\* variant: the interval is added to the total also when no status was known
UpdatedStats_countsUnknown(status) ==
    LET base == IF sessionStats.lastUpdateTime # Null
                THEN sessionStats.lastUpdateTime ELSE sessionStats.startTime
        dt   == IF base = Null THEN 0 ELSE now - base
        s    == sessionStats.lastStatus
        acc  == [sessionStats EXCEPT
                    !.totalTime = @ + dt,
                    !.goodPostureTime    = IF s = GOOD THEN @ + dt ELSE @,
                    !.warningPostureTime = IF s = WARNING THEN @ + dt ELSE @,
                    !.poorPostureTime    = IF s = POOR THEN @ + dt ELSE @]
    IN  [acc EXCEPT !.lastStatus = status, !.lastUpdateTime = now]

\* handlePostureUpdate: the session statistics block
UpdatedStats(status) ==
    LET base == IF sessionStats.lastUpdateTime # Null
                THEN sessionStats.lastUpdateTime ELSE sessionStats.startTime
        dt   == now - base
        s    == sessionStats.lastStatus
        acc  == IF s = UNKNOWN THEN sessionStats
                ELSE [sessionStats EXCEPT
                        !.totalTime = @ + dt,
                        !.goodPostureTime    = IF s = GOOD THEN @ + dt ELSE @,
                        !.warningPostureTime = IF s = WARNING THEN @ + dt ELSE @,
                        !.poorPostureTime    = IF s = POOR THEN @ + dt ELSE @]
    IN  [acc EXCEPT !.lastStatus = status, !.lastUpdateTime = now]

\* the history variables after an evaluation
EvaluationHistory(status, fires) ==
    LET off == ~currentSettings.alerts.enabled
    IN  /\ lastFiredAt' = IF fires THEN [lastFiredAt EXCEPT ![status] = now] ELSE lastFiredAt
        /\ snoozedSince' = (snoozedSince /\ ~fires)
        /\ poorSince' = IF status # POOR THEN Null
                        ELSE IF poorSince = Null THEN now ELSE poorSince
        /\ prevPoorStart' = poorPostureStartTime
        /\ offSince' = IF status = GOOD \/ ~off THEN Null
                       ELSE IF offSince = Null THEN now ELSE offSince
        /\ offPoorSince' = IF status # POOR \/ ~off THEN Null
                           ELSE IF offPoorSince = Null THEN now ELSE offPoorSince
        /\ offPoorReached' =
              (/\ offPoorSince # Null
               /\ Ge(sessionStats.lastUpdateTime - offPoorSince,
                     Mul(currentSettings.thresholds.poorPostureDuration, Time_SECOND)))
        /\ UNCHANGED snoozedUntil

handlePostureUpdate(status) ==
    LET fires == Fires(status)
        stats == UpdatedStats(status)
    IN  /\ poorPostureStartTime' = NextPoorStart(status)
        /\ lastAlertTime' = IF fires THEN now ELSE lastAlertTime
        /\ sessionStats' = IF fires THEN [stats EXCEPT !.alertCount = @ + 1] ELSE stats
        /\ fired' = IF fires THEN status ELSE "none"
        /\ op' = "posture_update"
        /\ EvaluationHistory(status, fires)
        /\ UNCHANGED <<now, currentSettings, nControl>>

-----------------------------------------------------------------------------
(* snoozeAlerts *)

\* variant: snoozing also restarts the poor-posture timer
snoozeAlerts_resetsTimer(durationMinutes) ==
    LET snoozeMs == durationMinutes * Time_MINUTE
    IN  /\ lastAlertTime' = Sub(Add(now, snoozeMs), cooldownMs)
        /\ poorPostureStartTime' = Null
        /\ snoozedUntil' = now + snoozeMs
        /\ snoozedSince' = TRUE
        /\ op' = "snooze_alerts"
        /\ fired' = "none"
        /\ UNCHANGED <<now, currentSettings, sessionStats,
                       lastFiredAt, poorSince, prevPoorStart, offSince, offPoorSince,
                       offPoorReached>>

snoozeAlerts(durationMinutes) ==
    LET snoozeMs == durationMinutes * Time_MINUTE
    IN  /\ lastAlertTime' = Sub(Add(now, snoozeMs), cooldownMs)
        /\ snoozedUntil' = now + snoozeMs
        /\ snoozedSince' = TRUE
        /\ op' = "snooze_alerts"
        /\ fired' = "none"
        /\ UNCHANGED <<now, currentSettings, poorPostureStartTime, sessionStats,
                       lastFiredAt, poorSince, prevPoorStart, offSince, offPoorSince,
                       offPoorReached>>

-----------------------------------------------------------------------------
(* updateSettings -> saveSettings *)

\* updateSettings: merged = {...currentSettings, ...newSettings}: a supplied
\* top-level group replaces the current one; saveSettings installs the merged
\* settings only when they validate
updateSettings(newSettings) ==
    LET merged == [g \in DOMAIN currentSettings |->
                      IF g \in DOMAIN newSettings THEN newSettings[g]
                      ELSE currentSettings[g]]
        success == validateSettings(merged)
    IN  /\ currentSettings' = IF success THEN merged ELSE currentSettings
        /\ op' = "update_settings"
        /\ fired' = "none"
        /\ UNCHANGED <<now, lastAlertTime, poorPostureStartTime, sessionStats, histVars>>

SettingsInputs ==
    { [thresholds |-> [poorPostureDuration |-> d]] : d \in DurationInputs }
    \cup { [alerts |-> [enabled |-> TRUE, cooldown |-> c]] : c \in CooldownInputs }
    \cup { [alerts |-> [enabled |-> FALSE, cooldown |-> 30]] }

-----------------------------------------------------------------------------
(* The clock *)

Advance(d) ==
    /\ now' = now + d
    /\ op' = "tick"
    /\ fired' = "none"
    /\ UNCHANGED <<codeVars, histVars, nControl>>

-----------------------------------------------------------------------------
(* JavaScript numbers of the pose analyzer, as exact fractions.            *)
(* A number is [num, den] in lowest terms with den >= 0: den = 0 is        *)
(* Infinity (num = 1), -Infinity (num = -1) or NaN (num = 0), so that the  *)
(* arithmetic below gives x/0, Infinity - Infinity and 0 * Infinity the    *)
(* values JavaScript gives them.  Rounding of doubles is not modelled.     *)

Abs(i) == IF i < 0 THEN -i ELSE i

Sign(i) == IF i < 0 THEN -1 ELSE IF i > 0 THEN 1 ELSE 0

RECURSIVE GCD(_, _)
GCD(a, b) == IF b = 0 THEN a ELSE GCD(b, a % b)

Q(n, d) ==
    IF d = 0 THEN [num |-> Sign(n), den |-> 0]
    ELSE LET g == GCD(Abs(n), Abs(d))
         IN  [num |-> (Sign(d) * n) \div g, den |-> Abs(d) \div g]

N(i) == [num |-> i, den |-> 1]

QNaN == [num |-> 0, den |-> 0]

QIsNaN(a) == a = QNaN

\* the values that are not numbers
Undefined == [undefined |-> TRUE]
JsNull    == [null |-> TRUE]

\* typeof v === 'number'
IsNumber(v) == DOMAIN v = {"num", "den"}

\* ToNumber: undefined is NaN, null is 0
ToNumber(v) == IF v = Undefined THEN QNaN ELSE IF v = JsNull THEN N(0) ELSE v

\* !v for a number, undefined or null
Falsy(v) == v \in {Undefined, JsNull, QNaN, N(0)}

QAdd(a, b) ==
    LET g == GCD(a.den, b.den)
    IN  IF QIsNaN(a) \/ QIsNaN(b) THEN QNaN
        ELSE IF g = 0 THEN Q(a.num + b.num, 0)
        ELSE Q(a.num * (b.den \div g) + b.num * (a.den \div g), (a.den \div g) * b.den)

QNeg(a) == [num |-> -a.num, den |-> a.den]

QSub(a, b) == QAdd(a, QNeg(b))

QMul(a, b) == Q(a.num * b.num, a.den * b.den)

QDiv(a, b) == QMul(a, Q(b.den, b.num))

QLt(a, b) ==
    /\ ~QIsNaN(a) /\ ~QIsNaN(b)
    /\ IF a.den = 0 /\ b.den = 0 THEN a.num < b.num
       ELSE a.num * b.den < b.num * a.den

QLe(a, b) == ~QIsNaN(a) /\ ~QIsNaN(b) /\ ~QLt(b, a)

QGt(a, b) == QLt(b, a)

QGe(a, b) == QLe(b, a)

\* Math.max, Math.min, Math.abs, Math.round
QMax(a, b) == IF QIsNaN(a) \/ QIsNaN(b) THEN QNaN ELSE IF QLt(a, b) THEN b ELSE a

QMin(a, b) == IF QIsNaN(a) \/ QIsNaN(b) THEN QNaN ELSE IF QLt(b, a) THEN b ELSE a

QAbs(a) == [num |-> Abs(a.num), den |-> a.den]

QRound(a) == IF a.den = 0 THEN a ELSE N((2 * a.num + a.den) \div (2 * a.den))

\* Number.isInteger
QIsInteger(a) == a.den = 1

\* tan((d - 1/2) degrees) * 10000 for d = 1..90
TanHalf ==
    << 87, 262, 437, 612, 787, 963, 1139, 1317, 1495, 1673,
       1853, 2035, 2217, 2401, 2586, 2773, 2962, 3153, 3346, 3541,
       3739, 3939, 4142, 4348, 4557, 4770, 4986, 5206, 5430, 5658,
       5890, 6128, 6371, 6619, 6873, 7133, 7400, 7673, 7954, 8243,
       8541, 8847, 9163, 9490, 9827, 10176, 10538, 10913, 11303, 11708,
       12131, 12572, 13032, 13514, 14019, 14550, 15108, 15697, 16319, 16977,
       17675, 18418, 19210, 20057, 20965, 21943, 22998, 24142, 25386, 26746,
       28239, 29887, 31716, 33759, 36059, 38667, 41653, 45107, 49152, 53955,
       59758, 66912, 75958, 87769, 103854, 127062, 163499, 229038, 381885, 1145887 >>

\* Math.atan(r) * (180 / Math.PI) for r >= 0, to the nearest whole degree
AtanDeg(r) ==
    IF QIsNaN(r) THEN QNaN
    ELSE N(Cardinality({d \in 1..90 : r.num * 10000 >= TanHalf[d] * r.den}))

-----------------------------------------------------------------------------
(* mathUtils.js and the constants the analyzer reads *)

\* variant: low and high exchanged
SensitivityMultipliers_swapped(sensitivity) ==
    CASE sensitivity = "low"    -> Q(3, 2)
      [] sensitivity = "medium" -> N(1)
      [] sensitivity = "high"   -> Q(7, 10)
      [] OTHER                  -> Undefined

\* SensitivityMultipliers[sensitivity]; undefined for any other name
SensitivityMultipliers(sensitivity) ==
    CASE sensitivity = "low"    -> Q(7, 10)
      [] sensitivity = "medium" -> N(1)
      [] sensitivity = "high"   -> Q(3, 2)
      [] OTHER                  -> Undefined

ScoreThresholds_GOOD == 80
ScoreThresholds_WARNING == 50

NOSE           == "nose"
LEFT_EYE       == "leftEye"
LEFT_EAR       == "leftEar"
RIGHT_EAR      == "rightEar"
LEFT_SHOULDER  == "leftShoulder"
RIGHT_SHOULDER == "rightShoulder"

KeypointParts == {NOSE, LEFT_EYE, LEFT_EAR, RIGHT_EAR, LEFT_SHOULDER, RIGHT_SHOULDER}

normalizeValue(value, min, max) ==
    IF max = min THEN N(0)
    ELSE LET normalized == QDiv(QSub(value, min), QSub(max, min))
         IN  QMax(N(0), QMin(N(1), normalized))

\* a variant that gives the weight alpha to the old value
exponentialSmoothing_swapped(newValue, oldValue, alpha) ==
    QAdd(QMul(alpha, oldValue), QMul(QSub(N(1), alpha), newValue))

\* mathUtils.exponentialSmoothing: alpha * newValue + (1 - alpha) * oldValue
exponentialSmoothing(newValue, oldValue, alpha) ==
    QAdd(QMul(alpha, newValue), QMul(QSub(N(1), alpha), oldValue))

\* |Math.atan2(deltaX, deltaY)| in degrees: the angle from the +y direction
calculateAngle(point1, point2) ==
    IF point1 = Undefined \/ point2 = Undefined THEN N(0)
    ELSE LET deltaX == QSub(point2.x, point1.x)
             deltaY == QSub(point2.y, point1.y)
         IN  IF QIsNaN(deltaX) \/ QIsNaN(deltaY) THEN QNaN
             ELSE IF QGt(deltaY, N(0)) THEN AtanDeg(QDiv(QAbs(deltaX), deltaY))
             ELSE IF QLt(deltaY, N(0))
                  THEN QSub(N(180), AtanDeg(QDiv(QAbs(deltaX), QAbs(deltaY))))
             ELSE IF deltaX = N(0) THEN N(0) ELSE N(90)

-----------------------------------------------------------------------------
(* PoseAnalyzer (src/src/detection/poseAnalyzer.js) *)

\* pose.keypoints.length
Length(keypoints) ==
    IF keypoints.type = "array" THEN Len(keypoints.items) ELSE keypoints.length

\* the test of extractKeypoints that a keypoint entry is usable
Usable(kp) ==
    /\ kp.part # ""
    /\ kp.position # Undefined
    /\ IsNumber(kp.position.x)
    /\ IsNumber(kp.position.y)

\* extracted[part]: the last usable entry of that part
extractKeypoints(keypoints) ==
    [ part \in KeypointParts |->
        LET items == IF keypoints.type = "array" THEN keypoints.items ELSE << >>
            at == {i \in 1..Len(items) : Usable(items[i]) /\ items[i].part = part}
        IN  IF at = {} THEN Undefined
            ELSE LET kp == items[CHOOSE i \in at : \A j \in at : j <= i]
                 IN  [ x |-> kp.position.x, y |-> kp.position.y,
                       score |-> IF Falsy(kp.score) THEN N(0) ELSE kp.score ] ]

RequiredParts == {NOSE, LEFT_SHOULDER, RIGHT_SHOULDER}

\* variant: a required keypoint only has to be present
hasRequiredKeypoints_presentOnly(keypoints) ==
    \A part \in RequiredParts : keypoints[part] # Undefined

hasRequiredKeypoints(keypoints) ==
    \A part \in RequiredParts :
        keypoints[part] # Undefined /\ QGt(keypoints[part].score, Q(3, 10))

RECURSIVE SumScores(_)
SumScores(items) ==
    IF items = << >> THEN N(0)
    ELSE QAdd(SumScores(SubSeq(items, 1, Len(items) - 1)),
              ToNumber(items[Len(items)].score))

getAverageConfidence(keypoints) ==
    IF keypoints.type # "array" \/ Len(keypoints.items) = 0 THEN N(0)
    ELSE QDiv(SumScores(keypoints.items), N(Len(keypoints.items)))

midpoint(a, b) ==
    [ x |-> QDiv(QAdd(a.x, b.x), N(2)), y |-> QDiv(QAdd(a.y, b.y), N(2)) ]

calculateHeadForwardAngle(keypoints) ==
    LET nose == keypoints[NOSE]
        leftShoulder == keypoints[LEFT_SHOULDER]
        rightShoulder == keypoints[RIGHT_SHOULDER]
    IN  IF nose = Undefined \/ leftShoulder = Undefined \/ rightShoulder = Undefined
        THEN N(0)
        ELSE LET shoulderMid == midpoint(leftShoulder, rightShoulder)
                 horizontalDistance == QAbs(QSub(nose.x, shoulderMid.x))
                 verticalDistance == QAbs(QSub(shoulderMid.y, nose.y))
             IN  IF verticalDistance = N(0) THEN N(0)
                 ELSE AtanDeg(QDiv(horizontalDistance, verticalDistance))

calculateShoulderAsymmetry(keypoints) ==
    LET leftShoulder == keypoints[LEFT_SHOULDER]
        rightShoulder == keypoints[RIGHT_SHOULDER]
    IN  IF leftShoulder = Undefined \/ rightShoulder = Undefined THEN N(0)
        ELSE LET heightDiff == QAbs(QSub(leftShoulder.y, rightShoulder.y))
                 shoulderWidth == QAbs(QSub(rightShoulder.x, leftShoulder.x))
             IN  IF shoulderWidth = N(0) THEN N(0)
                 ELSE AtanDeg(QDiv(heightDiff, shoulderWidth))

calculateNeckAngle(keypoints) ==
    LET nose == keypoints[NOSE]
        leftEar == keypoints[LEFT_EAR]
        rightEar == keypoints[RIGHT_EAR]
        leftShoulder == keypoints[LEFT_SHOULDER]
        rightShoulder == keypoints[RIGHT_SHOULDER]
        headPoint == IF leftEar # Undefined /\ rightEar # Undefined
                     THEN midpoint(leftEar, rightEar) ELSE nose
    IN  IF headPoint = Undefined \/ leftShoulder = Undefined \/ rightShoulder = Undefined
        THEN N(0)
        ELSE calculateAngle(midpoint(leftShoulder, rightShoulder), headPoint)

\* variant: the difference is not floored at 0
applyCalibration_unfloored(value, baseline) ==
    IF baseline = Undefined \/ baseline = JsNull THEN value
    ELSE QSub(value, baseline)

applyCalibration(value, baseline) ==
    IF baseline = Undefined \/ baseline = JsNull THEN value
    ELSE QMax(N(0), QSub(value, baseline))

\* the calibration step of analyzePose
calibrated(metrics, settings) ==
    IF settings.calibration \in {Undefined, JsNull} THEN metrics
    ELSE [ metrics EXCEPT
             !.headForwardAngle =
                 applyCalibration(@, settings.calibration.headForwardAngle),
             !.shoulderAsymmetry =
                 applyCalibration(@, settings.calibration.shoulderAsymmetry) ]

\* variant: the first frame is blended with 0 like any other
smoothMetrics_noFirstFrame(metrics, smoothed) ==
    LET alpha == Q(3, 10)
        old == IF smoothed = JsNull
               THEN [headForwardAngle |-> N(0), shoulderAsymmetry |-> N(0), neckAngle |-> N(0)]
               ELSE smoothed
    IN  [ headForwardAngle |->
              exponentialSmoothing(metrics.headForwardAngle, old.headForwardAngle, alpha),
          shoulderAsymmetry |->
              exponentialSmoothing(metrics.shoulderAsymmetry, old.shoulderAsymmetry, alpha),
          neckAngle |->
              exponentialSmoothing(metrics.neckAngle, old.neckAngle, alpha),
          confidence |-> metrics.confidence,
          timestamp |-> metrics.timestamp ]

\* smoothMetrics; smoothed is this.smoothedMetrics
smoothMetrics(metrics, smoothed) ==
    IF smoothed = JsNull THEN metrics
    ELSE LET alpha == Q(3, 10)
         IN  [ headForwardAngle |->
                   exponentialSmoothing(metrics.headForwardAngle,
                                        smoothed.headForwardAngle, alpha),
               shoulderAsymmetry |->
                   exponentialSmoothing(metrics.shoulderAsymmetry,
                                        smoothed.shoulderAsymmetry, alpha),
               neckAngle |->
                   exponentialSmoothing(metrics.neckAngle, smoothed.neckAngle, alpha),
               confidence |-> metrics.confidence,
               timestamp |-> metrics.timestamp ]

\* the thresholds calculatePostureScore uses when settings.thresholds is absent
DefaultScoreThresholds == [headForwardAngle |-> N(15), shoulderAsymmetry |-> N(10)]

\* variant: the partial score grows with the metric
partialScore_inverted(metric, multiplier, threshold) ==
    QMul(normalizeValue(QMul(metric, multiplier), N(0), QMul(threshold, N(2))),
         N(100))

\* the partial score of one metric: 100 - normalizeValue(metric * multiplier, 0, threshold * 2) * 100
partialScore(metric, multiplier, threshold) ==
    QSub(N(100),
         QMul(normalizeValue(QMul(metric, multiplier), N(0), QMul(threshold, N(2))),
              N(100)))

\* a variant that takes 20 points off for a neck angle above 20 degrees
calculatePostureScore_withNeck(metrics, settings) ==
    LET sensitivity == IF settings.sensitivity = "" THEN "medium" ELSE settings.sensitivity
        multiplier == ToNumber(SensitivityMultipliers(sensitivity))
        thresholds == IF settings.thresholds \in {Undefined, JsNull}
                      THEN DefaultScoreThresholds ELSE settings.thresholds
        headScore == partialScore(metrics.headForwardAngle, multiplier,
                                  ToNumber(thresholds.headForwardAngle))
        shoulderScore == partialScore(metrics.shoulderAsymmetry, multiplier,
                                      ToNumber(thresholds.shoulderAsymmetry))
        neckPenalty == IF QGt(ToNumber(metrics.neckAngle), N(20)) THEN N(20) ELSE N(0)
        totalScore == QSub(QAdd(QMul(headScore, Q(3, 5)), QMul(shoulderScore, Q(2, 5))),
                           neckPenalty)
    IN  QRound(QMax(N(0), QMin(N(100), totalScore)))

\* calculatePostureScore; settings is this.settings
calculatePostureScore(metrics, settings) ==
    LET sensitivity == IF settings.sensitivity = "" THEN "medium" ELSE settings.sensitivity
        multiplier == ToNumber(SensitivityMultipliers(sensitivity))
        thresholds == IF settings.thresholds \in {Undefined, JsNull}
                      THEN DefaultScoreThresholds ELSE settings.thresholds
        headScore == partialScore(metrics.headForwardAngle, multiplier,
                                  ToNumber(thresholds.headForwardAngle))
        shoulderScore == partialScore(metrics.shoulderAsymmetry, multiplier,
                                      ToNumber(thresholds.shoulderAsymmetry))
        totalScore == QAdd(QMul(headScore, Q(3, 5)), QMul(shoulderScore, Q(2, 5)))
    IN  QRound(QMax(N(0), QMin(N(100), totalScore)))

\* variant: the bands exclude their lower bounds
classifyPosture_exclusive(score) ==
    IF QGt(score, N(ScoreThresholds_GOOD)) THEN GOOD
    ELSE IF QGt(score, N(ScoreThresholds_WARNING)) THEN WARNING
    ELSE POOR

classifyPosture(score) ==
    IF QGe(score, N(ScoreThresholds_GOOD)) THEN GOOD
    ELSE IF QGe(score, N(ScoreThresholds_WARNING)) THEN WARNING
    ELSE POOR

\* detection.confidenceThreshold || 0.5
confidenceThreshold(settings) ==
    IF settings.detection \in {Undefined, JsNull}
       \/ Falsy(settings.detection.confidenceThreshold)
    THEN Q(1, 2)
    ELSE settings.detection.confidenceThreshold

\* variant: the average confidence is not checked
BelowConfidence_unchecked(keypoints, settings) == FALSE

BelowConfidence(keypoints, settings) ==
    QLt(getAverageConfidence(keypoints), confidenceThreshold(settings))

\* reading kp.score of a null or undefined entry raises a TypeError
ThrowsTypeError(keypoints) ==
    /\ keypoints.type = "array"
    /\ \E i \in 1..Len(keypoints.items) : keypoints.items[i] \in {JsNull, Undefined}

\* analyzePose(pose) at time t, on an analyzer holding settings and smoothed;
\* the outcome is null, a result or a thrown TypeError
analyzePose(pose, settings, smoothed, t) ==
    IF pose \in {JsNull, Undefined} THEN [outcome |-> "null"]
    ELSE IF pose.keypoints \in {JsNull, Undefined} THEN [outcome |-> "null"]
    ELSE IF Length(pose.keypoints) = 0 THEN [outcome |-> "null"]
    ELSE IF ThrowsTypeError(pose.keypoints) THEN [outcome |-> "throw"]
    ELSE IF BelowConfidence(pose.keypoints, settings) THEN [outcome |-> "null"]
    ELSE LET keypoints == extractKeypoints(pose.keypoints)
         IN  IF ~hasRequiredKeypoints(keypoints) THEN [outcome |-> "null"]
             ELSE LET metrics ==
                          calibrated([ headForwardAngle |-> calculateHeadForwardAngle(keypoints),
                                       shoulderAsymmetry |-> calculateShoulderAsymmetry(keypoints),
                                       neckAngle |-> calculateNeckAngle(keypoints),
                                       confidence |-> getAverageConfidence(pose.keypoints),
                                       timestamp |-> t ],
                                     settings)
                      newSmoothed == smoothMetrics(metrics, smoothed)
                      score == calculatePostureScore(newSmoothed, settings)
                  IN  [ outcome |-> "result",
                        metrics |-> newSmoothed,
                        score |-> score,
                        status |-> classifyPosture(score),
                        rawMetrics |-> metrics ]

-----------------------------------------------------------------------------
(* One PoseAnalyzer instance receiving poses, settings and resets *)

\* analyzePose calls explored
MaxFrames == 3

\* updateSettings and reset calls explored
MaxAnalyzerControl == 1

\* the clock advance between two poses, in ms (detection.js targetFPS = 5)
FrameMs == 200

\* the analyzer's part of getDefaultSettings()
DefaultAnalyzerSettings ==
    [ sensitivity |-> "medium",
      thresholds  |-> [headForwardAngle |-> N(15), shoulderAsymmetry |-> N(10)],
      detection   |-> [confidenceThreshold |-> Q(1, 2)],
      calibration |-> JsNull ]

\* new PoseAnalyzer() : settings = {}
EmptyAnalyzerSettings ==
    [ sensitivity |-> "", thresholds |-> Undefined,
      detection |-> Undefined, calibration |-> Undefined ]

ConstructorInputs == {DefaultAnalyzerSettings, EmptyAnalyzerSettings}

\* partial settings handed to updateSettings
AnalyzerSettingsInputs ==
    { [sensitivity |-> "high"],
      [thresholds |-> [headForwardAngle |-> N(20), shoulderAsymmetry |-> Undefined]],
      [detection |-> [confidenceThreshold |-> Q(3, 10)]],
      [calibration |-> [headForwardAngle |-> N(5), shoulderAsymmetry |-> Undefined]] }

KP(part, x, y, score) ==
    [part |-> part, position |-> [x |-> N(x), y |-> N(y)], score |-> score]

Keypoints(items) == [keypoints |-> [type |-> "array", items |-> items]]

UprightNose   == KP(NOSE, 100, 50, Q(95, 100))
ForwardNose   == KP(NOSE, 160, 50, Q(95, 100))
LeftShoulder  == KP(LEFT_SHOULDER, 80, 120, Q(9, 10))
RightShoulder == KP(RIGHT_SHOULDER, 120, 120, Q(9, 10))
LowShoulder   == KP(RIGHT_SHOULDER, 120, 130, Q(9, 10))

\* poses the worker may post
PoseInputs ==
    { JsNull,
      [keypoints |-> Undefined],
      [keypoints |-> [type |-> "string", length |-> 7]],
      Keypoints(<< >>),
      Keypoints(<<UprightNose, LeftShoulder, RightShoulder>>),
      Keypoints(<<ForwardNose, LeftShoulder, RightShoulder>>),
      \* nose level with the shoulders, both shoulders at the same place,
      \* scores out of range
      Keypoints(<<KP(NOSE, 100, 120, Q(3, 2)), LeftShoulder,
                  KP(RIGHT_SHOULDER, 80, 120, Q(9, 10)), KP(LEFT_EYE, 95, 45, Q(-1, 2))>>),
      \* no nose
      Keypoints(<<KP(LEFT_EYE, 95, 45, Q(9, 10)), LeftShoulder, RightShoulder>>),
      \* nose at the floor of 0.3
      Keypoints(<<KP(NOSE, 100, 50, Q(3, 10)), LeftShoulder, RightShoulder>>),
      \* right shoulder without position and score
      Keypoints(<<UprightNose, LeftShoulder,
                  [part |-> RIGHT_SHOULDER, position |-> Undefined, score |-> Undefined]>>),
      \* all required keypoints above the floor, average 0.4
      Keypoints(<<KP(NOSE, 160, 50, Q(4, 10)), KP(LEFT_SHOULDER, 80, 120, Q(4, 10)),
                  KP(RIGHT_SHOULDER, 120, 120, Q(4, 10))>>),
      \* a null entry
      Keypoints(<<UprightNose, LeftShoulder, RightShoulder, JsNull>>),
      \* an entry without score, uneven shoulders
      Keypoints(<<ForwardNose, LeftShoulder, LowShoulder,
                  [part |-> LEFT_EYE, position |-> [x |-> N(95), y |-> N(45)],
                   score |-> Undefined]>>) }

\* constructor(settings)
constructor(settings) ==
    /\ analyzerSettings = settings
    /\ smoothedMetrics = JsNull
    /\ analysis = [outcome |-> "none"]
    /\ lastPose = JsNull
    /\ prevSmoothed = JsNull
    /\ aop = "constructor"
    /\ nFrames = 0
    /\ nSmoothed = 0
    /\ nAnalyzerControl = 0

\* no pure function has been called
NoCall == [fn |-> "none"]

\* a variant of updateSettings that also clears the smoothing state
PoseAnalyzer_updateSettings_resetsSmoothing(settings) ==
    /\ analyzerSettings' =
           [ k \in DOMAIN analyzerSettings |->
               IF k \in DOMAIN settings THEN settings[k] ELSE analyzerSettings[k] ]
    /\ smoothedMetrics' = JsNull
    /\ nSmoothed' = 0
    /\ aop' = "updateSettings"
    /\ UNCHANGED <<analysis, lastPose, prevSmoothed, nFrames>>

\* PoseAnalyzer.updateSettings(settings): a shallow merge
PoseAnalyzer_updateSettings(settings) ==
    /\ analyzerSettings' =
           [ k \in DOMAIN analyzerSettings |->
               IF k \in DOMAIN settings THEN settings[k] ELSE analyzerSettings[k] ]
    /\ aop' = "updateSettings"
    /\ UNCHANGED <<smoothedMetrics, analysis, lastPose, prevSmoothed, nFrames, nSmoothed>>

\* PoseAnalyzer.reset()
PoseAnalyzer_reset ==
    /\ smoothedMetrics' = JsNull
    /\ nSmoothed' = 0
    /\ aop' = "reset"
    /\ UNCHANGED <<analyzerSettings, analysis, lastPose, prevSmoothed, nFrames>>

\* a variant of handlePoseResult in which a rejected frame clears the smoothing state
handlePoseResult_clearsOnReject(poseData) ==
    LET t == now + FrameMs
    IN  \E a \in {analyzePose(poseData, analyzerSettings, smoothedMetrics, t)} :
        /\ now' = t
        /\ analysis' = a
        /\ smoothedMetrics' = IF a.outcome = "result" THEN a.metrics ELSE JsNull
        /\ lastPose' = poseData
        /\ prevSmoothed' = smoothedMetrics
        /\ aop' = "analyzePose"
        /\ nFrames' = nFrames + 1
        /\ nSmoothed' = IF a.outcome = "result" THEN nSmoothed + 1 ELSE nSmoothed
        /\ UNCHANGED <<analyzerSettings, nAnalyzerControl>>

\* detection.js handlePoseResult: the analyzer is handed the pose the worker posted
handlePoseResult(poseData) ==
    LET t == now + FrameMs
    IN  \E a \in {analyzePose(poseData, analyzerSettings, smoothedMetrics, t)} :
        /\ now' = t
        /\ analysis' = a
        /\ smoothedMetrics' = IF a.outcome = "result" THEN a.metrics ELSE smoothedMetrics
        /\ lastPose' = poseData
        /\ prevSmoothed' = smoothedMetrics
        /\ aop' = "analyzePose"
        /\ nFrames' = nFrames + 1
        /\ nSmoothed' = IF a.outcome = "result" THEN nSmoothed + 1 ELSE nSmoothed
        /\ UNCHANGED <<analyzerSettings, nAnalyzerControl>>

-----------------------------------------------------------------------------
(* The background script handling messages in any order *)

\* the page objects before any of their methods ran
SettingsInit ==
    /\ storedSettings = Undefined
    /\ pendingSaves = <<>>
    /\ loadedSettings = Undefined
    /\ updatesIssued = <<>>

\* no detection window, nothing in flight
MonitorInit ==
    /\ detectionWindow = JsNull
    /\ openWindows = {}
    /\ cameraStreams = {}
    /\ pendingCreates = 0
    /\ pendingRemoves = <<>>
    /\ windowsCreated = 0
    /\ savedSessions = 0
    /\ nMonitoring = 0

\* constants.js DetectionState
DetectionState ==
    [ IDLE |-> "idle", STARTING |-> "starting", RUNNING |-> "running",
      STOPPING |-> "stopping", ERROR |-> "error" ]

\* new DetectionManager(): the fields are set and init() awaits the answer to
\* its get_settings message
DetectionManager_constructor ==
    /\ manager = [ state |-> DetectionState.IDLE, settings |-> JsNull, worker |-> JsNull,
                   stream |-> JsNull, frameInterval |-> JsNull, targetFPS |-> N(5),
                   listening |-> FALSE ]
    /\ pageEnv = [ getSettings |-> "pending", getUserMedia |-> "none", worker |-> "none",
                   framesPosted |-> 0, settingsUpdates |-> 0,
                   cameraFailed |-> FALSE, framesAfterFailure |-> 0 ]

AppInit ==
    /\ lastAnalysis = JsNull
    /\ SettingsInit
    /\ MonitorInit
    /\ DetectionManager_constructor

\* the script's variables other than the settings, before any message
BackgroundStateInit ==
    /\ now = Epoch
    /\ lastAlertTime = 0
    /\ poorPostureStartTime = Null
    /\ sessionStats = [ startTime |-> Null, totalTime |-> 0, goodPostureTime |-> 0,
                        warningPostureTime |-> 0, poorPostureTime |-> 0,
                        alertCount |-> 0, lastStatus |-> UNKNOWN,
                        lastUpdateTime |-> Null ]
    /\ op = "init"
    /\ fired = "none"
    /\ lastFiredAt = [k \in {WARNING, POOR} |-> Null]
    /\ snoozedUntil = Null
    /\ snoozedSince = FALSE
    /\ poorSince = Null
    /\ prevPoorStart = Null
    /\ offSince = Null
    /\ offPoorSince = Null
    /\ offPoorReached = FALSE
    /\ nControl = 0

BackgroundInit ==
    /\ currentSettings = getDefaultSettings
    /\ BackgroundStateInit

Init ==
    /\ BackgroundInit
    /\ constructor(DefaultAnalyzerSettings)
    /\ call = NoCall
    /\ ret = Undefined
    /\ AppInit

PostureUpdate ==
    /\ sessionStats.alertCount < MaxAlerts
    /\ \E status \in PostureStatus : handlePostureUpdate(status)
    /\ UNCHANGED <<analyzerVars, appVars, call, ret>>

Snooze ==
    /\ nControl < MaxControl
    /\ nControl' = nControl + 1
    /\ \E m \in SnoozeInputs : snoozeAlerts(m)
    /\ UNCHANGED <<analyzerVars, appVars, call, ret>>

UpdateSettings ==
    /\ nControl < MaxControl
    /\ nControl' = nControl + 1
    /\ \E s \in SettingsInputs : updateSettings(s)
    /\ UNCHANGED <<analyzerVars, appVars, call, ret>>

Tick ==
    /\ now + TickMs <= Epoch + MaxTicks * TickMs
    /\ Advance(TickMs)
    /\ UNCHANGED <<analyzerVars, appVars, call, ret>>

Next == PostureUpdate \/ Snooze \/ UpdateSettings \/ Tick

Spec == Init /\ [][Next]_vars

-----------------------------------------------------------------------------
(* Uninterrupted Poor readings at a 1 to 5 second cadence, default settings *)

\* seconds of uninterrupted Poor readings explored
MaxSecondsC10 == 340

CadenceInputs == {Time_SECOND, 5 * Time_SECOND}

PoorUpdateC10 ==
    /\ sessionStats.lastUpdateTime # now
    /\ sessionStats.alertCount < MaxAlerts
    /\ handlePostureUpdate(POOR)
    /\ UNCHANGED <<analyzerVars, appVars, call, ret>>

TickC10 ==
    /\ sessionStats.lastUpdateTime = now
    /\ \E d \in CadenceInputs :
          /\ now + d <= Epoch + MaxSecondsC10 * Time_SECOND
          /\ Advance(d)
    /\ UNCHANGED <<analyzerVars, appVars, call, ret>>

NextC10 == PoorUpdateC10 \/ TickC10

SpecC10 == Init /\ [][NextC10]_vars

-----------------------------------------------------------------------------
(* The detection page: poses, settings updates and resets in any order *)

InitAnalyzer ==
    /\ BackgroundInit
    /\ \E settings \in ConstructorInputs : constructor(settings)
    /\ call = NoCall
    /\ ret = Undefined
    /\ AppInit

AnalyzePose ==
    /\ nFrames < MaxFrames
    /\ \E poseData \in PoseInputs : handlePoseResult(poseData)
    /\ UNCHANGED <<backgroundVars, appVars, call, ret>>

AnalyzerUpdateSettings ==
    /\ nAnalyzerControl < MaxAnalyzerControl
    /\ nAnalyzerControl' = nAnalyzerControl + 1
    /\ \E settings \in AnalyzerSettingsInputs : PoseAnalyzer_updateSettings(settings)
    /\ UNCHANGED <<now, backgroundVars, appVars, call, ret>>

AnalyzerReset ==
    /\ nAnalyzerControl < MaxAnalyzerControl
    /\ nAnalyzerControl' = nAnalyzerControl + 1
    /\ PoseAnalyzer_reset
    /\ UNCHANGED <<now, backgroundVars, appVars, call, ret>>

NextAnalyzer == AnalyzePose \/ AnalyzerUpdateSettings \/ AnalyzerReset

SpecAnalyzer == InitAnalyzer /\ [][NextAnalyzer]_vars

-----------------------------------------------------------------------------
(* Settings objects as the messages carry them.  A number is a fraction, a  *)
(* string is [str |-> s], a boolean is [bool |-> b], an object is a record  *)
(* of its properties; a property an object lacks reads as undefined.        *)

Str(s) == [str |-> s]

Bool(b) == [bool |-> b]

\* typeof v
TypeOf(v) ==
    IF IsNumber(v) THEN "number"
    ELSE IF DOMAIN v = {"str"} THEN "string"
    ELSE IF DOMAIN v = {"bool"} THEN "boolean"
    ELSE IF v = Undefined THEN "undefined"
    ELSE "object"

\* if (v): false for undefined, null, 0, NaN, '' and false
Truthy(v) == ~Falsy(v) /\ v # Str("") /\ v # Bool(FALSE)

\* object.key, also for an object that is a number, a string or a boolean
Get(object, key) == IF key \in DOMAIN object THEN object[key] ELSE Undefined

\* {...current, ...partial}
Spread(current, partial) ==
    [ k \in DOMAIN current \cup DOMAIN partial |->
        IF k \in DOMAIN partial THEN partial[k] ELSE current[k] ]

\* validators.getDefaultSettings, all fields
DefaultSettingsObject ==
    [ sensitivity |-> Str("medium"),
      thresholds  |-> [ headForwardAngle |-> N(15), shoulderAsymmetry |-> N(10),
                        poorPostureDuration |-> N(30) ],
      alerts      |-> [enabled |-> Bool(TRUE), cooldown |-> N(300), sound |-> Bool(FALSE)],
      detection   |-> [fps |-> N(5), confidenceThreshold |-> Q(1, 2)],
      calibration |-> JsNull ]

\* typeof v !== 'number' || v < low || v > high
NotNumberBetween(v, low, high) ==
    TypeOf(v) # "number" \/ QLt(v, N(low)) \/ QGt(v, N(high))

\* the error pushed for a field of a group, if any
RangeError(group, field, low, high, message) ==
    IF Get(group, field) # Undefined /\ NotNumberBetween(Get(group, field), low, high)
    THEN <<message>> ELSE <<>>

BooleanError(group, field, message) ==
    IF Get(group, field) # Undefined /\ TypeOf(Get(group, field)) # "boolean"
    THEN <<message>> ELSE <<>>

\* validators.validateSettings, all fields: {valid, errors}
validateSettingsObject(settings) ==
    IF ~Truthy(settings) \/ TypeOf(settings) # "object"
    THEN [valid |-> FALSE, errors |-> <<"Settings must be an object">>]
    ELSE
      LET sensitivity == Get(settings, "sensitivity")
          thresholds == Get(settings, "thresholds")
          alerts == Get(settings, "alerts")
          detection == Get(settings, "detection")
          errors ==
            (IF Truthy(sensitivity)
                /\ sensitivity \notin {Str("low"), Str("medium"), Str("high")}
             THEN <<"Invalid sensitivity: must be one of low, medium, high">> ELSE <<>>)
            \o (IF Truthy(thresholds)
                THEN RangeError(thresholds, "headForwardAngle", 0, 90,
                                "headForwardAngle must be a number between 0 and 90")
                     \o RangeError(thresholds, "shoulderAsymmetry", 0, 90,
                                   "shoulderAsymmetry must be a number between 0 and 90")
                     \o RangeError(thresholds, "poorPostureDuration", 1, 600,
                                   "poorPostureDuration must be a number between 1 and 600 seconds")
                ELSE <<>>)
            \o (IF Truthy(alerts)
                THEN BooleanError(alerts, "enabled", "alerts.enabled must be a boolean")
                     \o RangeError(alerts, "cooldown", 0, 3600,
                                   "alerts.cooldown must be a number between 0 and 3600 seconds")
                     \o BooleanError(alerts, "sound", "alerts.sound must be a boolean")
                ELSE <<>>)
            \o (IF Truthy(detection)
                THEN RangeError(detection, "fps", 1, 30,
                                "detection.fps must be a number between 1 and 30")
                     \o RangeError(detection, "confidenceThreshold", 0, 1,
                                   "detection.confidenceThreshold must be a number between 0 and 1")
                ELSE <<>>)
      IN  [valid |-> Len(errors) = 0, errors |-> errors]

-----------------------------------------------------------------------------
(* validateSettings applied to drawn arguments *)

\* values of settings.sensitivity
SensitivityValues ==
    { Undefined, Str("low"), Str("medium"), Str("high"), Str("extreme"), Str(""),
      N(0), N(2), JsNull }

\* values of a field documented as a number between low and high
NumberValues(low, high) ==
    { N(low), N(high), N(low - 1), N(high + 1), QNaN, Str("15"), JsNull }

BooleanValues == { Bool(TRUE), Bool(FALSE), Str("yes"), N(1), JsNull }

\* values of settings.thresholds: absent, not an object, or an object in which
\* one field varies
ThresholdsValues ==
    { Undefined, JsNull, N(5), Str("strict") }
    \cup { [headForwardAngle |-> v, shoulderAsymmetry |-> N(10)] : v \in NumberValues(0, 90) }
    \cup { [shoulderAsymmetry |-> v] : v \in NumberValues(0, 90) }
    \cup { [headForwardAngle |-> N(15), poorPostureDuration |-> v] : v \in NumberValues(1, 600) }

AlertsValues ==
    { Undefined, Bool(TRUE) }
    \cup { [enabled |-> v, cooldown |-> N(300)] : v \in BooleanValues }
    \cup { [enabled |-> Bool(TRUE), cooldown |-> v] : v \in NumberValues(0, 3600) }
    \cup { [sound |-> v] : v \in BooleanValues }

DetectionValues ==
    { Undefined }
    \cup { [fps |-> v, confidenceThreshold |-> Q(1, 2)] : v \in NumberValues(1, 30) }
    \cup { [confidenceThreshold |-> v] : v \in NumberValues(0, 1) \cup {Q(1, 2)} }

\* arguments of validateSettings: values that are no objects, and objects in
\* which one part departs from the defaults or is absent
ValidateInputs ==
    { JsNull, Undefined, N(5), Str("high"), Bool(TRUE), DefaultSettingsObject }
    \cup { [sensitivity |-> v] : v \in SensitivityValues }
    \cup { [DefaultSettingsObject EXCEPT !.sensitivity = v] : v \in SensitivityValues }
    \cup { [sensitivity |-> Str("high"), thresholds |-> v] : v \in ThresholdsValues }
    \cup { [DefaultSettingsObject EXCEPT !.alerts = v] : v \in AlertsValues }
    \cup { [sensitivity |-> Str("low"), detection |-> v, alerts |-> a] :
              v \in DetectionValues, a \in {Undefined, [cooldown |-> N(3601)]} }

InitValidation ==
    /\ BackgroundInit
    /\ constructor(DefaultAnalyzerSettings)
    /\ call \in { [fn |-> "validateSettings", settings |-> settings] :
                     settings \in ValidateInputs }
    /\ ret = Undefined
    /\ AppInit

Validate ==
    /\ call.fn = "validateSettings"
    /\ ret = Undefined
    /\ ret' = validateSettingsObject(call.settings)
    /\ UNCHANGED <<now, backgroundVars, analyzerVars, appVars, call>>

NextValidation == Validate

SpecValidation == InitValidation /\ [][NextValidation]_vars

-----------------------------------------------------------------------------
(* The background script saving settings: update_settings messages and the  *)
(* completions of their storage writes, in any order                        *)

\* update_settings messages handled in a run
MaxUpdates == 2

\* what storage holds when the script starts: nothing, or settings a user
\* customised earlier
StoredSettingsObjects ==
    { Undefined,
      [ DefaultSettingsObject EXCEPT
          !.sensitivity = Str("low"),
          !.thresholds = [ headForwardAngle |-> N(20), shoulderAsymmetry |-> N(12),
                           poorPostureDuration |-> N(60) ] ] }

\* the data of update_settings messages
UpdateInputs ==
    { [sensitivity |-> Str("high")],
      [sensitivity |-> Str("extreme")],
      [thresholds |-> [poorPostureDuration |-> N(45)]],
      [alerts |-> [enabled |-> Bool(FALSE), cooldown |-> N(30), sound |-> Bool(TRUE)]],
      [alerts |-> [enabled |-> Bool(TRUE), cooldown |-> N(5000), sound |-> Bool(FALSE)]],
      [alerts |-> [enabled |-> Bool(TRUE), cooldown |-> QNaN, sound |-> Bool(FALSE)]],
      [detection |-> [fps |-> N(10), confidenceThreshold |-> Q(7, 10)]],
      \* the options page sends every group
      [ sensitivity |-> Str("low"),
        thresholds  |-> [ headForwardAngle |-> N(25), shoulderAsymmetry |-> N(10),
                          poorPostureDuration |-> N(30) ],
        alerts      |-> [enabled |-> Bool(TRUE), cooldown |-> N(300), sound |-> Bool(FALSE)],
        detection   |-> [fps |-> N(5), confidenceThreshold |-> Q(1, 2)],
        calibration |-> JsNull ] }

\* initialize() -> loadSettings(): stored settings are laid over the defaults;
\* without stored settings the defaults are saved and put in force
initialize(stored) ==
    /\ currentSettings = IF stored = Undefined THEN DefaultSettingsObject
                         ELSE Spread(DefaultSettingsObject, stored)
    /\ storedSettings = IF stored = Undefined THEN DefaultSettingsObject ELSE stored
    /\ pendingSaves = <<>>
    /\ loadedSettings = currentSettings
    /\ updatesIssued = <<>>

\* the call the last response answers
Answer(data, success, settings) ==
    /\ call' = [fn |-> "update_settings", data |-> data]
    /\ ret' = [success |-> success, settings |-> settings]

\* a variant of updateSettings in which the merged settings are put in force
\* before they are validated
updateSettings_received_mergesFirst(newSettings) ==
    LET merged == Spread(currentSettings, newSettings)
        validation == validateSettingsObject(merged)
    IN  /\ updatesIssued' = Append(updatesIssued, newSettings)
        /\ currentSettings' = merged
        /\ IF validation.valid
           THEN /\ pendingSaves' = Append(pendingSaves,
                                          [ settings |-> merged, data |-> newSettings,
                                            before |-> currentSettings ])
                /\ UNCHANGED <<call, ret>>
           ELSE /\ Answer(newSettings, FALSE, merged)
                /\ UNCHANGED pendingSaves
        /\ UNCHANGED <<storedSettings, loadedSettings>>

\* updateSettings(newSettings) up to the await in saveSettings(merged): invalid
\* merged settings are answered with success = false at once; for valid ones
\* browser.storage.local.set is called
updateSettings_received(newSettings) ==
    LET merged == Spread(currentSettings, newSettings)
        validation == validateSettingsObject(merged)
    IN  /\ updatesIssued' = Append(updatesIssued, newSettings)
        /\ IF validation.valid
           THEN /\ pendingSaves' = Append(pendingSaves,
                                          [ settings |-> merged, data |-> newSettings,
                                            before |-> currentSettings ])
                /\ UNCHANGED <<call, ret>>
           ELSE /\ Answer(newSettings, FALSE, currentSettings)
                /\ UNCHANGED pendingSaves
        /\ UNCHANGED <<currentSettings, storedSettings, loadedSettings>>

\* the oldest storage write completes and saveSettings resumes:
\* currentSettings = settings; updateSettings answers (no detection window is
\* open, so no settings_updated message is sent)
saveSettings_resumed ==
    LET save == Head(pendingSaves)
    IN  /\ storedSettings' = save.settings
        /\ currentSettings' = save.settings
        /\ pendingSaves' = Tail(pendingSaves)
        /\ Answer(save.data, TRUE, save.settings)
        /\ UNCHANGED <<loadedSettings, updatesIssued>>

\* what the settings actions leave alone
settingsFrame == <<now, lastAlertTime, poorPostureStartTime, sessionStats, op, fired,
                   histVars, nControl, analyzerVars, lastAnalysis, monitorVars, pageVars>>

InitSettings ==
    /\ BackgroundStateInit
    /\ constructor(DefaultAnalyzerSettings)
    /\ lastAnalysis = JsNull
    /\ \E stored \in StoredSettingsObjects : initialize(stored)
    /\ MonitorInit
    /\ DetectionManager_constructor
    /\ call = NoCall
    /\ ret = Undefined

ReceiveUpdateSettings ==
    /\ Len(updatesIssued) < MaxUpdates
    /\ detectionWindow = JsNull
    /\ \E newSettings \in UpdateInputs : updateSettings_received(newSettings)
    /\ UNCHANGED settingsFrame

CompleteSave ==
    /\ pendingSaves # <<>>
    /\ detectionWindow = JsNull
    /\ saveSettings_resumed
    /\ UNCHANGED settingsFrame

NextSettings == ReceiveUpdateSettings \/ CompleteSave

SpecSettings == InitSettings /\ [][NextSettings]_vars

-----------------------------------------------------------------------------
(* The background script starting and stopping monitoring: start_monitoring *)
(* and stop_monitoring messages, the completions of the browser calls they  *)
(* await, and the detection pages taking their camera, in any order         *)

\* start_monitoring and stop_monitoring messages handled in a run
MaxMonitoringMessages == 4

\* getStatus().isMonitoring
isMonitoring == detectionWindow # JsNull

\* startMonitoring() up to `await browser.windows.create`
startMonitoring_received ==
    IF detectionWindow # JsNull
    THEN /\ ret' = [success |-> FALSE, error |-> "Already monitoring"]
         /\ UNCHANGED <<sessionStats, poorPostureStartTime, pendingCreates>>
    ELSE /\ sessionStats' = [ startTime |-> now, totalTime |-> 0, goodPostureTime |-> 0,
                              warningPostureTime |-> 0, poorPostureTime |-> 0,
                              alertCount |-> 0, lastStatus |-> UNKNOWN,
                              lastUpdateTime |-> Null ]
         /\ poorPostureStartTime' = Null
         /\ pendingCreates' = pendingCreates + 1
         /\ UNCHANGED ret

\* browser.windows.create resolves with a new window: detectionWindow = window
startMonitoring_resumed ==
    LET id == windowsCreated + 1
    IN  /\ windowsCreated' = id
        /\ openWindows' = openWindows \cup {id}
        /\ detectionWindow' = [id |-> id]
        /\ pendingCreates' = pendingCreates - 1
        /\ ret' = [success |-> TRUE]

\* saveSessionStatistics: the time since the last posture update is added to
\* the total and to the counter of the last status
FinalStats ==
    LET base == IF sessionStats.lastUpdateTime # Null
                THEN sessionStats.lastUpdateTime ELSE sessionStats.startTime
        dt   == now - base
        s    == sessionStats.lastStatus
    IN  IF s = UNKNOWN THEN sessionStats
        ELSE [sessionStats EXCEPT
                !.totalTime = @ + dt,
                !.goodPostureTime    = IF s = GOOD THEN @ + dt ELSE @,
                !.warningPostureTime = IF s = WARNING THEN @ + dt ELSE @,
                !.poorPostureTime    = IF s = POOR THEN @ + dt ELSE @]

\* saveSessionStatistics(): the final interval is accounted and the session is
\* appended to the stored statistics
saveSessionStatistics ==
    /\ savedSessions' = savedSessions + 1
    /\ sessionStats' = FinalStats

\* stopMonitoring() up to its first await: browser.windows.remove when a
\* detection window is recorded, saveSessionStatistics otherwise
stopMonitoring_received ==
    IF detectionWindow # JsNull
    THEN /\ pendingRemoves' = Append(pendingRemoves, detectionWindow.id)
         /\ UNCHANGED <<savedSessions, sessionStats, ret>>
    ELSE /\ saveSessionStatistics
         /\ ret' = [success |-> TRUE]
         /\ UNCHANGED pendingRemoves

\* browser.windows.remove settles.  It resolves when the window existed: the
\* page unloads, its cleanup() stops the camera stream, detectionWindow = null
\* and the session is saved.  It rejects for a window already removed, and the
\* catch block answers with the error.
stopMonitoring_resumed ==
    LET id == Head(pendingRemoves)
    IN  /\ pendingRemoves' = Tail(pendingRemoves)
        /\ IF id \in openWindows
           THEN /\ openWindows' = openWindows \ {id}
                /\ cameraStreams' = cameraStreams \ {id}
                /\ detectionWindow' = JsNull
                /\ saveSessionStatistics
                /\ ret' = [success |-> TRUE]
           ELSE /\ ret' = [success |-> FALSE, error |-> "No window with id"]
                /\ UNCHANGED <<openWindows, cameraStreams, detectionWindow,
                               savedSessions, sessionStats>>

\* detection.js: the page of a detection window runs init() -> startCamera()
startCamera(id) ==
    /\ cameraStreams' = cameraStreams \cup {id}

\* what the monitoring actions leave alone
monitoringFrame == <<now, currentSettings, lastAlertTime, op, fired, histVars, nControl,
                     analyzerVars, lastAnalysis, settingsVars, pageVars, call>>

ReceiveStartMonitoring ==
    /\ nMonitoring < MaxMonitoringMessages
    /\ nMonitoring' = nMonitoring + 1
    /\ startMonitoring_received
    /\ UNCHANGED <<detectionWindow, openWindows, cameraStreams, pendingRemoves,
                   windowsCreated, savedSessions>>
    /\ UNCHANGED monitoringFrame

WindowCreated ==
    /\ pendingCreates > 0
    /\ startMonitoring_resumed
    /\ UNCHANGED <<sessionStats, poorPostureStartTime, cameraStreams, pendingRemoves,
                   savedSessions, nMonitoring>>
    /\ UNCHANGED monitoringFrame

ReceiveStopMonitoring ==
    /\ nMonitoring < MaxMonitoringMessages
    /\ nMonitoring' = nMonitoring + 1
    /\ stopMonitoring_received
    /\ UNCHANGED <<poorPostureStartTime, detectionWindow, openWindows, cameraStreams,
                   pendingCreates, windowsCreated>>
    /\ UNCHANGED monitoringFrame

WindowRemoved ==
    /\ pendingRemoves # <<>>
    /\ stopMonitoring_resumed
    /\ UNCHANGED <<poorPostureStartTime, pendingCreates, windowsCreated, nMonitoring>>
    /\ UNCHANGED monitoringFrame

CameraStarted ==
    /\ \E id \in openWindows \ cameraStreams : startCamera(id)
    /\ UNCHANGED <<sessionStats, poorPostureStartTime, detectionWindow, openWindows,
                   pendingCreates, pendingRemoves, windowsCreated, savedSessions,
                   nMonitoring, ret>>
    /\ UNCHANGED monitoringFrame

InitMonitoring ==
    /\ BackgroundInit
    /\ constructor(DefaultAnalyzerSettings)
    /\ call = NoCall
    /\ ret = Undefined
    /\ AppInit

NextMonitoring ==
    \/ ReceiveStartMonitoring
    \/ WindowCreated
    \/ ReceiveStopMonitoring
    \/ WindowRemoved
    \/ CameraStarted

SpecMonitoring == InitMonitoring /\ [][NextMonitoring]_vars

-----------------------------------------------------------------------------
(* Sessions: posture updates while monitoring is started and stopped and    *)
(* the clock advances                                                        *)

\* start_monitoring and stop_monitoring messages handled in a run with
\* posture updates
MaxSessionMessages == 2

SessionStartReceived ==
    /\ nMonitoring < MaxSessionMessages
    /\ nMonitoring' = nMonitoring + 1
    /\ startMonitoring_received
    /\ UNCHANGED <<detectionWindow, openWindows, cameraStreams, pendingRemoves,
                   windowsCreated, savedSessions>>
    /\ UNCHANGED monitoringFrame

SessionStopReceived ==
    /\ nMonitoring < MaxSessionMessages
    /\ nMonitoring' = nMonitoring + 1
    /\ stopMonitoring_received
    /\ UNCHANGED <<poorPostureStartTime, detectionWindow, openWindows, cameraStreams,
                   pendingCreates, windowsCreated>>
    /\ UNCHANGED monitoringFrame

NextSessions ==
    \/ PostureUpdate
    \/ Tick
    \/ SessionStartReceived
    \/ WindowCreated
    \/ SessionStopReceived
    \/ WindowRemoved

SpecSessions == Init /\ [][NextSessions]_vars

-----------------------------------------------------------------------------
(* The detection page: init(), the camera request settling, the worker's    *)
(* messages, the frame timer and messages from the background, in any order *)

\* frames posted to the worker in a run
MaxFramesPosted == 3

\* settings_updated messages handled in a run
MaxSettingsUpdates == 1

\* what the background answers to get_settings, and what settings_updated carries
PageSettingsInputs ==
    { DefaultSettingsObject,
      [DefaultSettingsObject EXCEPT !.detection = [fps |-> N(10),
                                                   confidenceThreshold |-> Q(1, 2)]],
      [sensitivity |-> Str("high")] }

\* settings.detection?.fps || 5
fpsOf(settings) ==
    LET detection == Get(settings, "detection")
    IN  IF detection \in {Undefined, JsNull} \/ Falsy(Get(detection, "fps")) THEN N(5)
        ELSE Get(detection, "fps")

\* setInterval(() => this.processFrame(), 1000 / this.targetFPS)
setInterval(fps) == [intervalMs |-> QDiv(N(1000), fps)]

\* init() resumes with the settings: the analyzer and the worker are created,
\* INIT is posted to the worker, and startCamera() sets STARTING and asks for
\* the camera
init_resumed(response) ==
    /\ manager' = [manager EXCEPT !.settings = response, !.worker = [created |-> TRUE],
                                  !.state = DetectionState.STARTING]
    /\ pageEnv' = [pageEnv EXCEPT !.getSettings = "answered", !.worker = "loading",
                                  !.getUserMedia = "pending"]

\* getUserMedia resolves: the stream is kept, the video metadata loads, and
\* init() adds the listener for messages from the background
startCamera_resolved ==
    /\ manager' = [manager EXCEPT !.stream = [active |-> TRUE], !.listening = TRUE]
    /\ pageEnv' = [pageEnv EXCEPT !.getUserMedia = "resolved"]

\* getUserMedia rejects: the catch block of startCamera sets ERROR, reports the
\* error and rethrows; init() reports it again and adds no listener
startCamera_rejected ==
    /\ manager' = [manager EXCEPT !.state = DetectionState.ERROR]
    /\ pageEnv' = [pageEnv EXCEPT !.getUserMedia = "rejected", !.cameraFailed = TRUE]

\* startDetection(): the manager after the call
startDetection ==
    IF manager.state = DetectionState.RUNNING THEN manager
    ELSE [manager EXCEPT !.state = DetectionState.RUNNING,
                         !.targetFPS = fpsOf(manager.settings),
                         !.frameInterval = setInterval(fpsOf(manager.settings))]

\* handleWorkerMessage for READY, posted by the worker when its model is loaded
handleWorkerMessage_READY ==
    /\ manager' = startDetection
    /\ pageEnv' = [pageEnv EXCEPT !.worker = "ready"]

\* handleWorkerMessage for ERROR, posted when loading the model failed: the
\* error is reported
handleWorkerMessage_ERROR ==
    /\ pageEnv' = [pageEnv EXCEPT !.worker = "failed"]
    /\ UNCHANGED manager

\* processFrame(), called by the interval timer: a frame is posted to the
\* worker only in the RUNNING state
processFrame ==
    IF manager.state # DetectionState.RUNNING THEN UNCHANGED pageEnv
    ELSE pageEnv' = [pageEnv EXCEPT
                        !.framesPosted = @ + 1,
                        !.framesAfterFailure = IF pageEnv.cameraFailed THEN @ + 1 ELSE @]

\* updateSettings(newSettings) on a settings_updated message: a changed rate
\* restarts a running interval timer
DetectionManager_updateSettings(newSettings) ==
    LET newFPS == fpsOf(newSettings)
    IN  /\ manager' =
              [manager EXCEPT
                  !.settings = newSettings,
                  !.targetFPS = newFPS,
                  !.frameInterval = IF newFPS # manager.targetFPS /\ manager.frameInterval # JsNull
                                    THEN setInterval(newFPS) ELSE @]
        /\ pageEnv' = [pageEnv EXCEPT !.settingsUpdates = @ + 1]

\* cleanup() on a stop_monitoring message: stopDetection() clears the timer and
\* sets IDLE, the stream is stopped and the worker terminated
cleanup ==
    /\ manager' = [manager EXCEPT !.frameInterval = JsNull, !.state = DetectionState.IDLE,
                                  !.stream = JsNull, !.worker = JsNull]
    /\ pageEnv' = [pageEnv EXCEPT !.worker = "terminated"]

\* what the detection page's actions leave alone
pageFrame == <<now, backgroundVars, analyzerVars, lastAnalysis, settingsVars, monitorVars,
               call, ret>>

SettingsAnswered ==
    /\ pageEnv.getSettings = "pending"
    /\ \E response \in PageSettingsInputs : init_resumed(response)
    /\ UNCHANGED pageFrame

CameraGranted ==
    /\ pageEnv.getUserMedia = "pending"
    /\ startCamera_resolved
    /\ UNCHANGED pageFrame

CameraFailed ==
    /\ pageEnv.getUserMedia = "pending"
    /\ startCamera_rejected
    /\ UNCHANGED pageFrame

WorkerReady ==
    /\ pageEnv.worker = "loading"
    /\ handleWorkerMessage_READY
    /\ UNCHANGED pageFrame

WorkerFailed ==
    /\ pageEnv.worker = "loading"
    /\ handleWorkerMessage_ERROR
    /\ UNCHANGED pageFrame

FrameTimer ==
    /\ manager.frameInterval # JsNull
    /\ pageEnv.framesPosted < MaxFramesPosted
    /\ processFrame
    /\ UNCHANGED <<manager, pageFrame>>

SettingsUpdated ==
    /\ manager.listening
    /\ pageEnv.settingsUpdates < MaxSettingsUpdates
    /\ \E newSettings \in PageSettingsInputs : DetectionManager_updateSettings(newSettings)
    /\ UNCHANGED pageFrame

StopRequested ==
    /\ manager.listening
    /\ manager.worker # JsNull
    /\ cleanup
    /\ UNCHANGED pageFrame

NextDetection ==
    \/ SettingsAnswered
    \/ CameraGranted
    \/ CameraFailed
    \/ WorkerReady
    \/ WorkerFailed
    \/ FrameTimer
    \/ SettingsUpdated
    \/ StopRequested

SpecDetection == Init /\ [][NextDetection]_vars

-----------------------------------------------------------------------------
(* PostureMonitorApp: poses processed, one calibration, resets of the analyzer *)

\* the settings initialize() finds in storage: the defaults, possibly with the
\* calibration an earlier calibrate() saved
StoredSettingsInputs ==
    { DefaultAnalyzerSettings,
      [DefaultAnalyzerSettings EXCEPT
          !.calibration = [headForwardAngle |-> N(5), shoulderAsymmetry |-> N(0)]],
      [DefaultAnalyzerSettings EXCEPT
          !.calibration = [headForwardAngle |-> N(50), shoulderAsymmetry |-> N(0)]] }

CalibrationPoseInputs ==
    { JsNull,
      Keypoints(<<UprightNose, LeftShoulder, RightShoulder>>),
      Keypoints(<<ForwardNose, LeftShoulder, RightShoulder>>),
      Keypoints(<<ForwardNose, LeftShoulder, LowShoulder>>),
      Keypoints(<<KP(NOSE, 160, 50, Q(4, 10)), KP(LEFT_SHOULDER, 80, 120, Q(4, 10)),
                  KP(RIGHT_SHOULDER, 120, 120, Q(4, 10))>>) }

\* initialize() and startDetection(): the analyzer is built on the stored settings
PostureMonitorApp_initialize(settings) ==
    /\ constructor(settings)
    /\ AppInit

\* processPose(pose) while RUNNING; the notification of checkAlert changes no state
PostureMonitorApp_processPose(pose) ==
    /\ handlePoseResult(pose)
    /\ lastAnalysis' = IF analysis'.outcome = "result" THEN analysis' ELSE lastAnalysis
    /\ UNCHANGED <<settingsVars, monitorVars, pageVars>>

\* calibrate(): updateSettings({calibration}) merges the calibration into the
\* app's settings and those into the analyzer's, which hold the same fields
PostureMonitorApp_calibrate ==
    /\ lastAnalysis # JsNull
    /\ PoseAnalyzer_updateSettings(
           [calibration |->
              [headForwardAngle |-> lastAnalysis.rawMetrics.headForwardAngle,
               shoulderAsymmetry |-> lastAnalysis.rawMetrics.shoulderAsymmetry]])
    /\ UNCHANGED <<lastAnalysis, settingsVars, monitorVars, pageVars>>

InitCalibration ==
    /\ BackgroundInit
    /\ \E settings \in StoredSettingsInputs : PostureMonitorApp_initialize(settings)
    /\ call = NoCall
    /\ ret = Undefined

ProcessPose ==
    /\ nFrames < MaxFrames
    /\ \E pose \in CalibrationPoseInputs : PostureMonitorApp_processPose(pose)
    /\ UNCHANGED <<backgroundVars, call, ret>>

\* one calibration in a run; call remembers it, the pose whose analysis it
\* captured (when that was the last pose processed) and the calibration in
\* force before it
Calibrate ==
    /\ call = NoCall
    /\ PostureMonitorApp_calibrate
    /\ call' = [fn |-> "calibrate",
                pose |-> IF analysis.outcome = "result" THEN lastPose ELSE Undefined,
                before |-> analyzerSettings.calibration]
    /\ UNCHANGED <<now, backgroundVars, nAnalyzerControl, ret>>

NextCalibration == ProcessPose \/ Calibrate \/ AnalyzerReset

SpecCalibration == InitCalibration /\ [][NextCalibration]_vars

-----------------------------------------------------------------------------
(* calculatePostureScore and classifyPosture applied to drawn arguments *)

\* angles in degrees handed to calculatePostureScore
MetricInputs == {N(0), N(5), Q(21, 2), N(15), N(20), N(30), N(45)}

\* thresholds.headForwardAngle and thresholds.shoulderAsymmetry values
ThresholdInputs == {N(0), N(1), N(10), N(15), N(90)}

SensitivityInputs == {"low", "medium", "high", ""}

\* the largest score handed to classifyPosture
MaxScore == 100

ScoreCalls ==
    { [ fn |-> "calculatePostureScore",
        metrics |-> [headForwardAngle |-> h, shoulderAsymmetry |-> s, neckAngle |-> N(170)],
        settings |-> [ sensitivity |-> sens,
                       thresholds |-> [headForwardAngle |-> th, shoulderAsymmetry |-> N(10)],
                       detection |-> Undefined, calibration |-> Undefined ] ] :
        h \in MetricInputs, s \in {N(0), N(5), N(20)},
        sens \in SensitivityInputs, th \in ThresholdInputs }

ClassifyCalls == { [fn |-> "classifyPosture", score |-> N(s)] : s \in 0..MaxScore }

InitScoring ==
    /\ BackgroundInit
    /\ constructor(DefaultAnalyzerSettings)
    /\ call \in ScoreCalls \cup ClassifyCalls
    /\ ret = Undefined
    /\ AppInit

Score ==
    /\ call.fn = "calculatePostureScore"
    /\ ret = Undefined
    /\ ret' = [score |-> calculatePostureScore(call.metrics, call.settings)]
    /\ UNCHANGED <<now, backgroundVars, appVars, analyzerVars, call>>

Classify ==
    /\ call.fn = "classifyPosture"
    /\ ret = Undefined
    /\ ret' = [status |-> classifyPosture(call.score)]
    /\ UNCHANGED <<now, backgroundVars, appVars, analyzerVars, call>>

NextScoring == Score \/ Classify

SpecScoring == InitScoring /\ [][NextScoring]_vars

-----------------------------------------------------------------------------
(* The texts shown to the user, built for drawn analyses *)

\* A text is modelled by the sentences it is made of, in order, and the score
\* it prints (Undefined when it prints none).
Text(sentences, score) == [sentences |-> sentences, score |-> score]

\* threshold || fallback
OrDefault(threshold, fallback) == IF Falsy(threshold) THEN fallback ELSE threshold

\* this.settings.thresholds?.[metric]
OptionalThreshold(settings, metric) ==
    IF settings.thresholds \in {Undefined, JsNull} THEN Undefined
    ELSE settings.thresholds[metric]

\* PoseAnalyzer.getPostureFeedback(analysis); result is the analysis, settings is
\* this.settings
getPostureFeedback(result, settings) ==
    IF result = JsNull \/ result.status = UNKNOWN
    THEN Text(<<"Unable to detect posture. Please ensure you are visible to the camera.">>,
              Undefined)
    ELSE IF result.status = GOOD
    THEN Text(<<"Excellent posture!">>, result.score)
    ELSE LET metrics == result.metrics
             head == IF QGt(ToNumber(metrics.headForwardAngle),
                            OrDefault(OptionalThreshold(settings, "headForwardAngle"), N(15)))
                     THEN <<"Your head is too far forward. Bring your ears in line with your shoulders.">>
                     ELSE <<>>
             shoulder == IF QGt(ToNumber(metrics.shoulderAsymmetry),
                                OrDefault(OptionalThreshold(settings, "shoulderAsymmetry"), N(10)))
                         THEN <<"Your shoulders are uneven. Try to level them and relax.">>
                         ELSE <<>>
             neck == IF QGt(ToNumber(metrics.neckAngle), N(20))
                     THEN <<"Your neck angle suggests slouching. Sit up straighter.">>
                     ELSE <<>>
             feedback == head \o shoulder \o neck
         IN  Text(IF feedback = <<>> THEN <<"Your posture needs improvement.">> ELSE feedback,
                  result.score)

\* the message of the notification triggerAlert creates:
\* `Your posture score is ${score}/100. ...`; undefined for any other status
triggerAlert_message(status, score, metrics) ==
    IF status = POOR THEN Text(<<"Please adjust your position.">>, score)
    ELSE IF status = WARNING THEN Text(<<"Consider improving your position.">>, score)
    ELSE Undefined

\* AlertManager.buildAlertMessage(analysis); result is the analysis
buildAlertMessage(result) ==
    LET head == IF QGt(ToNumber(result.metrics.headForwardAngle), N(15))
                THEN <<"Your head is too far forward.">> ELSE <<>>
        shoulder == IF QGt(ToNumber(result.metrics.shoulderAsymmetry), N(10))
                    THEN <<"Your shoulders are uneven.">> ELSE <<>>
        feedback == head \o shoulder
    IN  Text(IF feedback = <<>> THEN <<"Please adjust your posture.">> ELSE feedback,
             result.score)

\* smoothed angles of an analysis
FeedbackHeadInputs == {N(0), N(10), N(14), N(16), N(25), N(45)}
FeedbackShoulderInputs == {N(0), N(9), N(12), N(30)}
FeedbackNeckInputs == {N(10), N(170)}

\* the settings of the analyzer and of the background script, as far as the
\* texts read them
FeedbackSettingsInputs ==
    { [ sensitivity |-> sens, thresholds |-> th, detection |-> Undefined,
        calibration |-> Undefined ] :
        sens \in {"medium", "high"},
        th \in { Undefined,
                 [headForwardAngle |-> N(15), shoulderAsymmetry |-> N(10)],
                 [headForwardAngle |-> N(20), shoulderAsymmetry |-> N(5)],
                 [headForwardAngle |-> N(0), shoulderAsymmetry |-> N(10)] } }

\* what analyzePose returns for smoothed metrics under settings
AnalysisOf(metrics, settings) ==
    LET score == calculatePostureScore(metrics, settings)
    IN  [metrics |-> metrics, score |-> score, status |-> classifyPosture(score)]

TextCalls ==
    { [ fn |-> fn, settings |-> settings,
        analysis |-> AnalysisOf([headForwardAngle |-> h, shoulderAsymmetry |-> s,
                                 neckAngle |-> n], settings) ] :
        fn \in {"getPostureFeedback", "triggerAlert", "buildAlertMessage"},
        settings \in FeedbackSettingsInputs,
        h \in FeedbackHeadInputs, s \in FeedbackShoulderInputs, n \in FeedbackNeckInputs }

InitTexts ==
    /\ BackgroundInit
    /\ constructor(DefaultAnalyzerSettings)
    /\ call \in TextCalls
    /\ ret = Undefined
    /\ AppInit

Feedback ==
    /\ call.fn = "getPostureFeedback"
    /\ ret = Undefined
    /\ ret' = [text |-> getPostureFeedback(call.analysis, call.settings)]
    /\ UNCHANGED <<now, backgroundVars, appVars, analyzerVars, call>>

\* handlePostureUpdate hands a Poor analysis to triggerAlert
AlertText ==
    /\ call.fn = "triggerAlert"
    /\ call.analysis.status = POOR
    /\ ret = Undefined
    /\ ret' = [text |-> triggerAlert_message(call.analysis.status, call.analysis.score,
                                              call.analysis.metrics)]
    /\ UNCHANGED <<now, backgroundVars, appVars, analyzerVars, call>>

\* AlertManager.checkAndAlert hands a Warning or Poor analysis to buildAlertMessage
BuildAlertMessage ==
    /\ call.fn = "buildAlertMessage"
    /\ call.analysis.status \in {WARNING, POOR}
    /\ ret = Undefined
    /\ ret' = [text |-> buildAlertMessage(call.analysis)]
    /\ UNCHANGED <<now, backgroundVars, appVars, analyzerVars, call>>

NextTexts == Feedback \/ AlertText \/ BuildAlertMessage

SpecTexts == InitTexts /\ [][NextTexts]_vars

-----------------------------------------------------------------------------
(* sanitizeSettings applied to drawn arguments *)

\* a variant of clampNumber without the upper limit
clampNumber_noUpperLimit(value, min, max, defaultValue) ==
    IF TypeOf(value) # "number" \/ QIsNaN(value) THEN defaultValue
    ELSE QMax(min, value)

\* validators.clampNumber
clampNumber(value, min, max, defaultValue) ==
    IF TypeOf(value) # "number" \/ QIsNaN(value) THEN defaultValue
    ELSE QMax(min, QMin(max, value))

\* Boolean(value ?? defaultValue)
BooleanOr(value, defaultValue) ==
    Bool(IF value \in {Undefined, JsNull} THEN defaultValue ELSE Truthy(value))

\* validators.sanitizeSettings for an argument that is neither null nor undefined
sanitizeSettings(settings) ==
    LET sensitivity == Get(settings, "sensitivity")
        thresholds == Get(settings, "thresholds")
        alerts == Get(settings, "alerts")
        detection == Get(settings, "detection")
        groups == { g \in {"sensitivity", "thresholds", "alerts", "detection"} :
                      Truthy(Get(settings, g)) }
    IN  [ g \in groups |->
            CASE g = "sensitivity" ->
                    IF sensitivity \in {Str("low"), Str("medium"), Str("high")}
                    THEN sensitivity ELSE Str("medium")
              [] g = "thresholds" ->
                    [ headForwardAngle |->
                          clampNumber(Get(thresholds, "headForwardAngle"), N(0), N(90), N(15)),
                      shoulderAsymmetry |->
                          clampNumber(Get(thresholds, "shoulderAsymmetry"), N(0), N(90), N(10)),
                      poorPostureDuration |->
                          clampNumber(Get(thresholds, "poorPostureDuration"), N(1), N(600), N(30)) ]
              [] g = "alerts" ->
                    [ enabled |-> BooleanOr(Get(alerts, "enabled"), TRUE),
                      cooldown |-> clampNumber(Get(alerts, "cooldown"), N(0), N(3600), N(300)),
                      sound |-> BooleanOr(Get(alerts, "sound"), FALSE) ]
              [] g = "detection" ->
                    [ fps |-> clampNumber(Get(detection, "fps"), N(1), N(30), N(5)),
                      confidenceThreshold |->
                          clampNumber(Get(detection, "confidenceThreshold"), N(0), N(1), Q(1, 2)) ] ]

\* arguments of sanitizeSettings: those of validateSettings, infinite and
\* fractional numbers, a calibration and a property the settings do not have
SanitizeInputs ==
    ValidateInputs
    \cup { [thresholds |-> [headForwardAngle |-> v, poorPostureDuration |-> Q(1, 2)]] :
              v \in {Q(1, 0), Q(-1, 0), Q(181, 2)} }
    \cup { [DefaultSettingsObject EXCEPT
                !.calibration = [headForwardAngle |-> N(5), shoulderAsymmetry |-> N(0)]],
           [sensitivity |-> Str("high"), theme |-> Str("dark")] }

InitSanitize ==
    /\ BackgroundInit
    /\ constructor(DefaultAnalyzerSettings)
    /\ call \in { [fn |-> "sanitizeSettings", settings |-> settings] :
                     settings \in SanitizeInputs }
    /\ ret = Undefined
    /\ AppInit

\* reading settings.sensitivity of null or undefined raises a TypeError
Sanitize ==
    /\ call.fn = "sanitizeSettings"
    /\ ret = Undefined
    /\ ret' = IF call.settings \in {JsNull, Undefined} THEN [thrown |-> "TypeError"]
              ELSE [sanitized |-> sanitizeSettings(call.settings)]
    /\ UNCHANGED <<now, backgroundVars, analyzerVars, appVars, call>>

NextSanitize == Sanitize

SpecSanitize == InitSanitize /\ [][NextSanitize]_vars

-----------------------------------------------------------------------------
(* The analyzer under each confidence threshold validateSettings accepts *)

\* detection.confidenceThreshold values in 0..1
ConfidenceThresholdInputs == {N(0), Q(3, 10), Q(2, 5), Q(1, 2), N(1)}

InitAcceptance ==
    /\ BackgroundInit
    /\ \E threshold \in ConfidenceThresholdInputs :
           constructor([DefaultAnalyzerSettings EXCEPT
                            !.detection = [confidenceThreshold |-> threshold]])
    /\ call = NoCall
    /\ ret = Undefined
    /\ AppInit

NextAcceptance == AnalyzePose \/ AnalyzerReset

SpecAcceptance == InitAcceptance /\ [][NextAcceptance]_vars

-----------------------------------------------------------------------------
(* Properties *)

\* the configured values as the properties read them
ThresholdMs == Mul(currentSettings.thresholds.poorPostureDuration, Time_SECOND)
ConfiguredCooldownMs == Mul(currentSettings.alerts.cooldown, Time_SECOND)

\* the poor-posture duration the handler measured at the last evaluation, in ms
TrackedDuration ==
    IF poorPostureStartTime = Null THEN 0
    ELSE sessionStats.lastUpdateTime - poorPostureStartTime

Evaluated == op = "posture_update"

\* C1: an evaluation creates no notification of a kind while less than the
\* configured cooldown has passed since the last notification of that kind
\* (in runs with no snooze_alerts between the two notifications).
C1_CooldownBetweenAlerts ==
    [][ (fired' # "none" /\ lastFiredAt[fired'] # Null /\ ~snoozedSince)
          => ~Lt(now - lastFiredAt[fired'], ConfiguredCooldownMs) ]_vars

\* an evaluation that met the duration threshold with alerts enabled was
\* suppressed because the previous notification is younger than the cooldown
C1_Witness ==
    /\ Evaluated /\ fired = "none" /\ sessionStats.lastStatus = POOR
    /\ currentSettings.alerts.enabled /\ ~snoozedSince
    /\ poorSince # Null /\ Ge(now - poorSince, ThresholdMs)
    /\ lastFiredAt[POOR] # Null
    /\ Lt(now - lastFiredAt[POOR], ConfiguredCooldownMs)

\* C2: a notification is created only at an evaluation at which the run of
\* consecutive Poor readings has lasted at least thresholds.poorPostureDuration
\* seconds, and never at the first evaluation after a Good reading.
C2_NoAlertBelowDuration ==
    [][ op' = "posture_update"
          => /\ fired' # "none" => (poorSince' # Null /\ Ge(now - poorSince', ThresholdMs))
             /\ sessionStats.lastStatus = GOOD => fired' = "none" ]_vars

\* a Poor run is under way, alerts are enabled and out of cooldown, and the
\* evaluation stayed silent because the run is still shorter than the threshold
C2_Witness ==
    /\ Evaluated /\ fired = "none" /\ sessionStats.lastStatus = POOR
    /\ currentSettings.alerts.enabled
    /\ ~Lt(Sub(now, lastAlertTime), ConfiguredCooldownMs)
    /\ poorSince # Null /\ now - poorSince > 0
    /\ Lt(now - poorSince, ThresholdMs)

\* C3: an evaluation with status Good clears the poor-posture timer (duration 0)
\* and creates no notification, whatever the state before it.
C3_GoodResets ==
    [][ (op' = "posture_update" /\ sessionStats'.lastStatus = GOOD)
          => /\ poorPostureStartTime' = Null
             /\ TrackedDuration' = 0
             /\ fired' = "none"
             /\ lastAlertTime' = lastAlertTime
             /\ sessionStats'.alertCount = sessionStats.alertCount ]_vars

\* a Good reading arrived when a Poor reading would have raised an alert
C3_Witness ==
    /\ Evaluated /\ sessionStats.lastStatus = GOOD
    /\ prevPoorStart # Null /\ Ge(now - prevPoorStart, ThresholdMs)
    /\ currentSettings.alerts.enabled
    /\ ~Lt(Sub(now, lastAlertTime), ConfiguredCooldownMs)
    /\ poorPostureStartTime = Null /\ fired = "none"

\* C4 as claimed: at every Warning or Poor evaluation the time since the
\* previous Warning/Poor evaluation is added to the duration (Warning counts
\* like Poor; only Good resets).
C4_WarningOrPoorAccumulates ==
    [][ (op' = "posture_update" /\ sessionStats'.lastStatus \in {WARNING, POOR})
          => TrackedDuration' =
                IF sessionStats.lastStatus \in {WARNING, POOR}
                THEN TrackedDuration + (now - sessionStats.lastUpdateTime)
                ELSE 0 ]_vars

\* C4 amended: at a Poor evaluation that follows a Poor evaluation the time
\* since that evaluation is added to the duration; at every other evaluation
\* (Good, Warning, or the first Poor of a run) the duration is 0.
C4_PoorAccumulates ==
    [][ op' = "posture_update"
          => TrackedDuration' =
                IF sessionStats'.lastStatus = POOR /\ sessionStats.lastStatus = POOR
                THEN TrackedDuration + (now - sessionStats.lastUpdateTime)
                ELSE 0 ]_vars

\* a Poor run has accumulated over at least two intervals
C4_Witness ==
    /\ Evaluated /\ sessionStats.lastStatus = POOR
    /\ TrackedDuration >= 2 * TickMs

\* C5 as claimed: right after a notification of one kind, triggerAlert lets a
\* notification of the other kind through when alerts are enabled and that other
\* kind's own cooldown has expired.
C5_IndependentCooldowns ==
    \A k \in {WARNING, POOR} :
        LET other == IF k = WARNING THEN POOR ELSE WARNING
        IN  (/\ fired = other
             /\ currentSettings.alerts.enabled
             /\ \/ lastFiredAt[k] = Null
                \/ ~Lt(now - lastFiredAt[k], ConfiguredCooldownMs))
            => TriggerAlertPasses(k)

\* C6: while alerts.enabled is false no evaluation creates a notification.
C6_DisabledNeverFires ==
    [][ (op' = "posture_update" /\ ~currentSettings.alerts.enabled)
          => /\ fired' = "none"
             /\ lastAlertTime' = lastAlertTime
             /\ sessionStats'.alertCount = sessionStats.alertCount ]_vars

\* with alerts disabled, an evaluation met the duration threshold out of
\* cooldown and stayed silent
C6_Witness ==
    /\ Evaluated /\ ~currentSettings.alerts.enabled
    /\ sessionStats.lastStatus = POOR
    /\ poorSince # Null /\ Ge(now - poorSince, ThresholdMs)
    /\ ~Lt(Sub(now, lastAlertTime), ConfiguredCooldownMs)
    /\ fired = "none"

C8_SnoozeSuppresses ==
    fired # "none" => (snoozedUntil = Null \/ now >= snoozedUntil)

\* C9: snooze_alerts changes lastAlertTime only: the poor-posture timer, the
\* settings and the session statistics are as before the call.
C9_SnoozeFrame ==
    [][ op' = "snooze_alerts"
          => UNCHANGED <<poorPostureStartTime, currentSettings, sessionStats>> ]_vars

\* a snooze was handled while a Poor run was being timed and after an alert
C9_Witness ==
    /\ op = "snooze_alerts"
    /\ poorPostureStartTime # Null
    /\ sessionStats.alertCount > 0
    /\ sessionStats.poorPostureTime > 0

\* C10: with threshold 30 s and cooldown 300 s, under uninterrupted Poor
\* readings an evaluation creates a notification exactly when at least 30 s
\* have passed since the first reading and no notification was created in the
\* last 300 s; so every evaluation from 30 s up to 330 s leaves exactly one.
C10_OneAlertPerCooldown ==
    [][ op' = "posture_update"
          => LET elapsed == now - Epoch
             IN  /\ (fired' # "none") <=>
                       (/\ elapsed >= 30 * Time_SECOND
                        /\ \/ sessionStats.alertCount = 0
                           \/ now - lastFiredAt[POOR] >= 300 * Time_SECOND)
                 /\ (elapsed >= 30 * Time_SECOND /\ elapsed < 330 * Time_SECOND)
                       => sessionStats'.alertCount = 1 ]_vars

\* the second notification, created once the cooldown of the first had run out
C10_Witness ==
    /\ Evaluated /\ fired = POOR /\ sessionStats.alertCount = 2

-----------------------------------------------------------------------------
(* Properties of the pose analyzer *)

\* the last step was an analyzePose call
Analyzed == aop = "analyzePose"

\* the pose of that call carried a list of keypoint objects
KeypointList ==
    /\ lastPose # JsNull
    /\ lastPose.keypoints \notin {Undefined, JsNull}
    /\ lastPose.keypoints.type = "array"
    /\ lastPose.keypoints.items # << >>
    /\ \A i \in 1..Len(lastPose.keypoints.items) :
           lastPose.keypoints.items[i] \notin {JsNull, Undefined}

\* the entries of that pose that supply the part with a position
Supplied(part) ==
    { i \in 1..Len(lastPose.keypoints.items) :
        /\ lastPose.keypoints.items[i].part = part
        /\ Usable(lastPose.keypoints.items[i]) }

\* the part is supplied with a score greater than 0.3
AboveFloor(part) ==
    /\ Supplied(part) # {}
    /\ \A i \in Supplied(part) :
           /\ IsNumber(lastPose.keypoints.items[i].score)
           /\ QGt(lastPose.keypoints.items[i].score, Q(3, 10))

\* the average score of the supplied keypoints
AverageScore == getAverageConfidence(lastPose.keypoints)

\* detection.confidenceThreshold as configured, 0.5 when not configured
ConfiguredConfidenceThreshold ==
    IF analyzerSettings.detection \in {Undefined, JsNull} THEN Q(1, 2)
    ELSE IF analyzerSettings.detection.confidenceThreshold = Undefined THEN Q(1, 2)
    ELSE analyzerSettings.detection.confidenceThreshold

\* C11: analyzePose returns null for every list of keypoint objects in which
\* nose, leftShoulder or rightShoulder is absent, unusable or scored 0.3 or
\* less, whatever the average score is.
C11_RequiredKeypointFloor ==
    (Analyzed /\ KeypointList /\ \E part \in RequiredParts : ~AboveFloor(part))
        => analysis.outcome = "null"

\* a pose whose average passes the confidence check is rejected because a
\* required keypoint is scored exactly 0.3
C11_Witness ==
    /\ Analyzed /\ KeypointList /\ analysis.outcome = "null"
    /\ QGe(AverageScore, ConfiguredConfidenceThreshold)
    /\ \E part \in RequiredParts :
          /\ Supplied(part) # {}
          /\ \A i \in Supplied(part) : lastPose.keypoints.items[i].score = Q(3, 10)

\* C12: analyzePose returns null for every list of keypoint objects whose
\* average score is below the configured confidence threshold (0.5 when none
\* is configured), also when every required keypoint is present.
C12_AverageBelowThreshold ==
    (Analyzed /\ KeypointList /\ QLt(AverageScore, ConfiguredConfidenceThreshold))
        => analysis.outcome = "null"

\* a pose with all three required keypoints above the floor is rejected for
\* its average score
C12_Witness ==
    /\ Analyzed /\ KeypointList /\ analysis.outcome = "null"
    /\ QLt(AverageScore, ConfiguredConfidenceThreshold)
    /\ \A part \in RequiredParts : AboveFloor(part)

\* C13: analyzePose never throws: every call returns null or an analysis
\* result, whatever the pose is (null, without keypoints, a non-array, an
\* empty list, entries that are null or lack part, position or score, scores
\* out of range), and zero-length geometry gives the metric 0.
C13_NeverThrows ==
    Analyzed =>
        /\ analysis.outcome \in {"null", "result"}
        /\ (analysis.outcome = "result"
              /\ analyzerSettings.calibration \in {Undefined, JsNull}) =>
               LET keypoints == extractKeypoints(lastPose.keypoints)
                   mid == midpoint(keypoints[LEFT_SHOULDER], keypoints[RIGHT_SHOULDER])
               IN  /\ mid.y = keypoints[NOSE].y
                       => analysis.rawMetrics.headForwardAngle = N(0)
                   /\ keypoints[LEFT_SHOULDER].x = keypoints[RIGHT_SHOULDER].x
                       => analysis.rawMetrics.shoulderAsymmetry = N(0)

\* C14: every analysis result carries a score that is an integer in 0..100,
\* whatever settings the analyzer holds, those installed through
\* updateSettings with a partial thresholds group included.
C14_ScoreIsPercentage ==
    (Analyzed /\ analysis.outcome = "result") =>
        /\ QIsInteger(analysis.score)
        /\ QGe(analysis.score, N(0))
        /\ QLe(analysis.score, N(100))

\* the angles of the last pose before calibration
RawHeadForwardAngle == calculateHeadForwardAngle(extractKeypoints(lastPose.keypoints))

RawShoulderAsymmetry == calculateShoulderAsymmetry(extractKeypoints(lastPose.keypoints))

\* the baseline in force for a metric; Undefined when there is none
Baseline(metric) ==
    IF analyzerSettings.calibration \in {Undefined, JsNull} THEN Undefined
    ELSE analyzerSettings.calibration[metric]

\* max(0, value - baseline), and value itself when the baseline is absent
StatedCalibration(value, baseline) ==
    IF baseline \in {Undefined, JsNull} THEN value
    ELSE IF QLt(QSub(value, baseline), N(0)) THEN N(0)
    ELSE QSub(value, baseline)

\* 0.3 * raw + 0.7 * previous
StatedSmoothing(raw, previous) == QAdd(QMul(Q(3, 10), raw), QMul(Q(7, 10), previous))

\* C19: the calibrated angle is max(0, value - baseline), never negative, and
\* the value itself when the baseline is absent; headForwardAngle and
\* shoulderAsymmetry are calibrated before they are smoothed.
C19_CalibrationFloor ==
    (Analyzed /\ analysis.outcome = "result") =>
        LET head == StatedCalibration(RawHeadForwardAngle, Baseline("headForwardAngle"))
            shoulder == StatedCalibration(RawShoulderAsymmetry, Baseline("shoulderAsymmetry"))
        IN  /\ analysis.rawMetrics.headForwardAngle = head
            /\ analysis.rawMetrics.shoulderAsymmetry = shoulder
            /\ QGe(head, N(0)) /\ QGe(shoulder, N(0))
            /\ analysis.metrics.headForwardAngle =
                   IF prevSmoothed = JsNull THEN head
                   ELSE StatedSmoothing(head, prevSmoothed.headForwardAngle)
            /\ analysis.metrics.shoulderAsymmetry =
                   IF prevSmoothed = JsNull THEN shoulder
                   ELSE StatedSmoothing(shoulder, prevSmoothed.shoulderAsymmetry)

\* a head angle below its baseline was floored at 0 and then smoothed, while
\* the shoulder angle had no baseline
C19_Witness ==
    /\ Analyzed /\ analysis.outcome = "result"
    /\ prevSmoothed # JsNull
    /\ Baseline("headForwardAngle") \notin {Undefined, JsNull}
    /\ Baseline("shoulderAsymmetry") = Undefined
    /\ QLt(RawHeadForwardAngle, Baseline("headForwardAngle"))
    /\ analysis.rawMetrics.headForwardAngle = N(0)
    /\ analysis.rawMetrics.shoulderAsymmetry = RawShoulderAsymmetry

\* C20: the first analyzePose that returns a result after construction or
\* reset() returns the raw metrics as smoothed metrics; every later one
\* returns 0.3*raw + 0.7*previous smoothed value for each angle; confidence
\* and timestamp are always those of the current frame.
C20_SmoothingSchedule ==
    (Analyzed /\ analysis.outcome = "result") =>
        LET raw == analysis.rawMetrics
            smoothed == analysis.metrics
        IN  /\ smoothedMetrics = smoothed
            /\ raw.timestamp = now
            /\ raw.confidence = AverageScore
            /\ smoothed.confidence = raw.confidence
            /\ smoothed.timestamp = raw.timestamp
            /\ IF nSmoothed = 1 THEN smoothed = raw
               ELSE \A metric \in {"headForwardAngle", "shoulderAsymmetry", "neckAngle"} :
                        smoothed[metric] = StatedSmoothing(raw[metric], prevSmoothed[metric])

\* a third result in a row whose smoothed head angle differs from the raw one
\* and from the previous smoothed one
C20_Witness ==
    /\ Analyzed /\ analysis.outcome = "result"
    /\ nSmoothed = 3
    /\ analysis.metrics.headForwardAngle # analysis.rawMetrics.headForwardAngle
    /\ analysis.metrics.headForwardAngle # prevSmoothed.headForwardAngle
    /\ analysis.metrics.timestamp # prevSmoothed.timestamp

-----------------------------------------------------------------------------
(* Properties of scoring and classification *)

Classified == call.fn = "classifyPosture" /\ ret # Undefined

Scored == call.fn = "calculatePostureScore" /\ ret # Undefined

\* C15: classifyPosture returns a status for every score in 0..100, with
\* lower-inclusive bands: Good iff score >= 80, Warning iff 50 <= score < 80,
\* Poor iff score < 50.
C15_ClassificationBands ==
    Classified =>
        LET score == call.score.num
        IN  /\ ret.status \in PostureStatus
            /\ ret.status = GOOD <=> score >= 80
            /\ ret.status = WARNING <=> (50 <= score /\ score < 80)
            /\ ret.status = POOR <=> score < 50

\* the boundary score 80 was classified Good
C15_Witness == Classified /\ call.score = N(80) /\ ret.status = GOOD

\* the documented multiplier of a sensitivity (medium when none is set)
NamedMultiplier(sensitivity) ==
    CASE sensitivity = "low"  -> Q(7, 10)
      [] sensitivity = "high" -> Q(3, 2)
      [] OTHER                -> N(1)

\* the partial score as C16 states it: 100 for a metric of 0, 0 for a scaled
\* metric at or above twice the threshold, linear in between
StatedPartialScore(metric, multiplier, threshold) ==
    LET scaled == QMul(metric, multiplier)
        twice == QMul(threshold, N(2))
    IN  IF metric = N(0) THEN N(100)
        ELSE IF QGe(scaled, twice) THEN N(0)
        ELSE QSub(N(100), QMul(N(100), QDiv(scaled, twice)))

\* C16: the head and shoulder partial scores are
\* 100 - 100*clamp(metric*multiplier/(2*threshold), 0, 1) for every threshold
\* in 0..90, so the score returned is the rounded 0.6/0.4 blend of them.
C16_PartialScoreFormula ==
    Scored =>
        LET multiplier == NamedMultiplier(call.settings.sensitivity)
            thresholds == call.settings.thresholds
            head == StatedPartialScore(call.metrics.headForwardAngle, multiplier,
                                       thresholds.headForwardAngle)
            shoulder == StatedPartialScore(call.metrics.shoulderAsymmetry, multiplier,
                                           thresholds.shoulderAsymmetry)
        IN  ret.score = QRound(QAdd(QMul(head, Q(3, 5)), QMul(shoulder, Q(2, 5))))

\* the score of the call's metrics with one angle replaced
ScoreWithHead(angle) ==
    calculatePostureScore([call.metrics EXCEPT !.headForwardAngle = angle], call.settings)

ScoreWithShoulder(angle) ==
    calculatePostureScore([call.metrics EXCEPT !.shoulderAsymmetry = angle], call.settings)

\* C17: under the same settings and with the other angle fixed, a larger
\* headForwardAngle never gets a larger score, and neither does a larger
\* shoulderAsymmetry.
C17_ScoreMonotone ==
    Scored =>
        \A angle \in MetricInputs :
            /\ QGe(angle, call.metrics.headForwardAngle)
                 => ~QGt(ScoreWithHead(angle), ret.score)
            /\ QGe(angle, call.metrics.shoulderAsymmetry)
                 => ~QGt(ScoreWithShoulder(angle), ret.score)

\* a larger head angle got a strictly smaller score
C17_Witness ==
    /\ Scored
    /\ \E angle \in MetricInputs :
          /\ QGt(angle, call.metrics.headForwardAngle)
          /\ QLt(ScoreWithHead(angle), ret.score)

\* the score of the call's metrics and thresholds under a sensitivity
ScoreWithSensitivity(sensitivity) ==
    calculatePostureScore(call.metrics, [call.settings EXCEPT !.sensitivity = sensitivity])

\* C18: for the same metrics and thresholds the score under high sensitivity
\* is at most the score under medium, which is at most the score under low;
\* the multipliers are 0.7, 1.0 and 1.5.
C18_SensitivityOrdering ==
    Scored =>
        /\ ret.score = ScoreWithSensitivity(IF call.settings.sensitivity = "" THEN "medium"
                                            ELSE call.settings.sensitivity)
        /\ QLe(ScoreWithSensitivity("high"), ScoreWithSensitivity("medium"))
        /\ QLe(ScoreWithSensitivity("medium"), ScoreWithSensitivity("low"))
        /\ SensitivityMultipliers("low") = Q(7, 10)
        /\ SensitivityMultipliers("medium") = N(1)
        /\ SensitivityMultipliers("high") = Q(3, 2)

\* metrics that the three sensitivities score differently
C18_Witness ==
    /\ Scored
    /\ QLt(ScoreWithSensitivity("high"), ScoreWithSensitivity("medium"))
    /\ QLt(ScoreWithSensitivity("medium"), ScoreWithSensitivity("low"))

-----------------------------------------------------------------------------
(* Properties of the analyzer's state over several calls *)

\* the settings after a partial update: every field the partial names takes the
\* partial's value, every other field keeps its own
MergedInto(settings, partial) ==
    /\ DOMAIN settings = DOMAIN analyzerSettings
    /\ \A k \in DOMAIN partial : settings[k] = partial[k]
    /\ \A k \in DOMAIN analyzerSettings \ DOMAIN partial : settings[k] = analyzerSettings[k]

\* C21: reset() clears the smoothing state and leaves the settings unchanged;
\* updateSettings(partial) shallow-merges the partial into the settings and
\* leaves the smoothing state unchanged.
C21_DisjointEffects ==
    [][ /\ aop' = "reset"
            => (smoothedMetrics' = JsNull /\ analyzerSettings' = analyzerSettings)
        /\ aop' = "updateSettings"
            => /\ smoothedMetrics' = smoothedMetrics
               /\ \E partial \in AnalyzerSettingsInputs :
                      MergedInto(analyzerSettings', partial) ]_vars

\* the settings were updated while a smoothing state was held
C21_Witness ==
    /\ aop = "updateSettings"
    /\ smoothedMetrics # JsNull
    /\ analyzerSettings.sensitivity = "high"

AngleMetrics == {"headForwardAngle", "shoulderAsymmetry", "neckAngle"}

\* |smoothed - raw| of one angle
Distance(smoothed, raw, metric) == QAbs(QSub(smoothed[metric], raw[metric]))

-----------------------------------------------------------------------------
(* The score and the neck angle *)

\* neck angles, among them the ones the feedback text distinguishes (above and
\* at most 20 degrees), a missing one and NaN
NeckInputs == {N(0), N(20), N(21), N(90), N(170), N(180), QNaN, Undefined}

\* the score of the call's metrics with the neck angle replaced
ScoreWithNeck(angle) ==
    calculatePostureScore([call.metrics EXCEPT !.neckAngle = angle], call.settings)

\* C30: metric records that agree on headForwardAngle and shoulderAsymmetry
\* get the same score and the same status under the same settings, whatever
\* their neckAngle.
C30_ScoreIgnoresNeckAngle ==
    Scored =>
        \A angle \in NeckInputs :
            /\ ScoreWithNeck(angle) = ret.score
            /\ classifyPosture(ScoreWithNeck(angle)) = classifyPosture(ret.score)

\* a score strictly between 0 and 100 was given to metrics whose neck angle is
\* above the 20 degrees of the feedback text
C30_Witness ==
    /\ Scored
    /\ QGt(call.metrics.neckAngle, N(20))
    /\ QGt(ret.score, N(0)) /\ QLt(ret.score, N(100))
    /\ ScoreWithNeck(N(0)) = ret.score

-----------------------------------------------------------------------------
(* Properties of the texts *)

TextBuilt == call.fn \in {"getPostureFeedback", "triggerAlert", "buildAlertMessage"}
                /\ ret # Undefined

HeadForwardCauses ==
    { "Your head is too far forward. Bring your ears in line with your shoulders.",
      "Your head is too far forward." }

ShoulderCauses ==
    { "Your shoulders are uneven. Try to level them and relax.",
      "Your shoulders are uneven." }

GenericCauses ==
    { "Your posture needs improvement.", "Please adjust your posture.",
      "Please adjust your position.", "Consider improving your position." }

\* the text holds a sentence of the set
Says(causes) == \E i \in DOMAIN ret.text.sentences : ret.text.sentences[i] \in causes

\* the threshold the settings configure for a metric (15 and 10 degrees when
\* the settings hold no thresholds)
ConfiguredThreshold(metric) ==
    IF call.settings.thresholds \in {Undefined, JsNull} THEN DefaultScoreThresholds[metric]
    ELSE call.settings.thresholds[metric]

Exceeds(metric) == QGt(call.analysis.metrics[metric], ConfiguredThreshold(metric))

\* C24: every alert or feedback text for a non-Good result holds the score and
\* at least one cause; the head-forward cause iff headForwardAngle exceeds the
\* configured head threshold, the shoulder cause iff shoulderAsymmetry exceeds
\* the configured shoulder threshold, and the generic sentence exactly when
\* neither metric exceeds its threshold.
C24_TextNamesCauses ==
    (TextBuilt /\ call.analysis.status # GOOD) =>
        /\ ret.text # Undefined
        /\ ret.text.score = call.analysis.score
        /\ ret.text.sentences # <<>>
        /\ Says(HeadForwardCauses) <=> Exceeds("headForwardAngle")
        /\ Says(ShoulderCauses) <=> Exceeds("shoulderAsymmetry")
        /\ Says(GenericCauses)
              <=> (~Exceeds("headForwardAngle") /\ ~Exceeds("shoulderAsymmetry"))

-----------------------------------------------------------------------------
(* Properties of calibration *)

\* the pose whose analysis calibrate() captured was analysed again, first after
\* a reset of the smoothing
Recalibrated ==
    /\ call.fn = "calibrate"
    /\ Analyzed /\ analysis.outcome = "result"
    /\ lastPose = call.pose
    /\ nSmoothed = 1

\* C27: after calibrate(), analysing the captured pose again with the smoothing
\* reset gives head and shoulder angles of 0 and score 100, whatever calibration
\* was in force before calibrate().
C27_CalibratedPoseIsPerfect ==
    Recalibrated =>
        /\ analysis.rawMetrics.headForwardAngle = N(0)
        /\ analysis.rawMetrics.shoulderAsymmetry = N(0)
        /\ analysis.metrics.headForwardAngle = N(0)
        /\ analysis.metrics.shoulderAsymmetry = N(0)
        /\ analysis.score = N(100)

-----------------------------------------------------------------------------
(* Properties of settings validation *)

Validated == call.fn = "validateSettings" /\ ret # Undefined

\* the documented ranges of the numeric fields
DocumentedRanges ==
    [ thresholds |-> [ headForwardAngle |-> <<0, 90>>, shoulderAsymmetry |-> <<0, 90>>,
                       poorPostureDuration |-> <<1, 600>> ],
      alerts     |-> [cooldown |-> <<0, 3600>>],
      detection  |-> [fps |-> <<1, 30>>, confidenceThreshold |-> <<0, 1>>] ]

DocumentedBooleans == [alerts |-> {"enabled", "sound"}]

\* the fields of a group that an object supplies
Supplies(settings, group, field) ==
    /\ TypeOf(Get(settings, group)) = "object" /\ Get(settings, group) # JsNull
    /\ Get(Get(settings, group), field) # Undefined

\* a number inside a documented range
WithinRange(v, range) ==
    IsNumber(v) /\ QGe(v, N(range[1])) /\ QLe(v, N(range[2]))

\* every field the object supplies has the documented type and range
FieldsAsDocumented(settings) ==
    /\ Get(settings, "sensitivity") # Undefined
          => Get(settings, "sensitivity") \in {Str("low"), Str("medium"), Str("high")}
    /\ \A group \in DOMAIN DocumentedRanges :
          \A field \in DOMAIN DocumentedRanges[group] :
             Supplies(settings, group, field)
               => WithinRange(settings[group][field], DocumentedRanges[group][field])
    /\ \A group \in DOMAIN DocumentedBooleans :
          \A field \in DocumentedBooleans[group] :
             Supplies(settings, group, field)
               => TypeOf(settings[group][field]) = "boolean"

IsSettingsObject(settings) == TypeOf(settings) = "object" /\ settings # JsNull

\* C28: validateSettings returns valid = true exactly when its argument is an
\* object and every field it supplies has the documented type and lies in the
\* documented range; otherwise it returns valid = false and at least one error.
C28_ValidExactlyWhenDocumented ==
    Validated =>
        /\ ret.valid <=> (IsSettingsObject(call.settings) /\ FieldsAsDocumented(call.settings))
        /\ ~ret.valid => Len(ret.errors) >= 1

-----------------------------------------------------------------------------
(* Properties of saving settings *)

\* an update_settings call has been answered
Answered == call.fn = "update_settings" /\ ret # Undefined

\* every numeric field the settings hold lies in its documented range
NumericFieldsInRange(settings) ==
    \A group \in DOMAIN DocumentedRanges :
       \A field \in DOMAIN DocumentedRanges[group] :
          Supplies(settings, group, field)
            => WithinRange(settings[group][field], DocumentedRanges[group][field])

\* C23: no settings update is refused, and after any update every numeric
\* field of the settings in force lies in its documented range (values out of
\* range or of the wrong type having been clamped or replaced by the default).
C23_UpdatesSanitizedNotRefused ==
    Answered =>
        /\ ret.success
        /\ NumericFieldsInRange(currentSettings)
        /\ NumericFieldsInRange(ret.settings)

\* the fields of a group, for a group that is an object
FieldsOf(group) ==
    IF TypeOf(group) = "object" /\ group # JsNull THEN DOMAIN group ELSE {}

\* C25: a save changes only the fields its partial object supplies: when the
\* save completes, every top-level field the partial does not name, and every
\* nested field it does not name inside a group it names, has the value it
\* had when the update was received.
C25_UnnamedFieldsKept ==
    [][ Len(pendingSaves') < Len(pendingSaves)
          => LET save == Head(pendingSaves)
             IN  /\ \A k \in DOMAIN save.before \ DOMAIN save.data :
                       currentSettings'[k] = save.before[k]
                 /\ \A k \in DOMAIN save.before \cap DOMAIN save.data :
                       \A f \in FieldsOf(save.before[k]) \ FieldsOf(save.data[k]) :
                          Get(currentSettings'[k], f) = save.before[k][f] ]_vars

\* one update_settings call handled on its own: saveSettings installs the
\* merged settings when they validate
HandledAlone(settings, newSettings) ==
    IF validateSettingsObject(Spread(settings, newSettings)).valid
    THEN Spread(settings, newSettings) ELSE settings

\* the settings that handling the calls numbered in `calls` one after another,
\* in any order, can leave in force
RECURSIVE SerialOutcomes(_, _)
SerialOutcomes(settings, calls) ==
    IF calls = {} THEN {settings}
    ELSE UNION { SerialOutcomes(HandledAlone(settings, updatesIssued[i]), calls \ {i}) :
                   i \in calls }

\* C26: once every update_settings call issued has completed, the settings
\* stored and in force are those that handling the same calls one after
\* another in some order would have left.
C26_SavesSerializable ==
    (pendingSaves = <<>> /\ updatesIssued # <<>>) =>
        /\ currentSettings \in SerialOutcomes(loadedSettings, DOMAIN updatesIssued)
        /\ storedSettings \in SerialOutcomes(loadedSettings, DOMAIN updatesIssued)

-----------------------------------------------------------------------------
(* Properties of monitoring *)

\* C29: in every reachable state in which the background script reports
\* isMonitoring = false, no detection window exists and no camera stream is
\* held, whatever the order of the start_monitoring and stop_monitoring
\* messages and of their completions.
C29_NoCameraWhenNotMonitoring ==
    ~isMonitoring => (openWindows = {} /\ cameraStreams = {})

-----------------------------------------------------------------------------
(* Rejected frames *)

\* C31: an analyzePose call that returns null leaves the smoothing state and the
\* settings as they were; a later result is computed from the pose, the settings
\* and the smoothing state only, so a rejected frame changes no later result.
C31_RejectedFrameHasNoEffect ==
    [][ (aop' = "analyzePose" /\ analysis'.outcome = "null")
        => /\ smoothedMetrics' = smoothedMetrics
           /\ analyzerSettings' = analyzerSettings ]_vars

\* a frame is rejected after an accepted one, with frames still to come
C31_Witness ==
    /\ aop = "analyzePose"
    /\ analysis.outcome = "null"
    /\ smoothedMetrics # JsNull
    /\ nSmoothed >= 1
    /\ nFrames < MaxFrames

-----------------------------------------------------------------------------
(* Acceptance *)

\* C32: analyzePose returns a result for every non-empty list of keypoint
\* objects whose average score is at least the configured confidence threshold
\* (any value in 0..1) and in which nose, leftShoulder and rightShoulder are
\* supplied with numeric positions and a score greater than 0.3.
C32_AcceptedWhenConditionsMet ==
    ( /\ Analyzed /\ KeypointList
      /\ QGe(AverageScore, ConfiguredConfidenceThreshold)
      /\ \A part \in RequiredParts : AboveFloor(part) )
        => analysis.outcome = "result"

-----------------------------------------------------------------------------
(* Snooze and cooldown *)

\* the cooldown started by the last notification is still running
CooldownRunning ==
    /\ ~snoozedSince
    /\ lastAlertTime # 0
    /\ Lt(Sub(now, lastAlertTime), cooldownMs)

\* the first instant at which triggerAlert passes its cooldown test
NextAlertAllowedAt(alertTime) == Add(alertTime, cooldownMs)

\* C33: a snooze requested while the cooldown of a previous notification is
\* still running never moves the instant from which the next notification can
\* fire to an earlier time.
C33_SnoozeNeverShortens ==
    [][ (op' = "snooze_alerts" /\ CooldownRunning)
        => ~Lt(NextAlertAllowedAt(lastAlertTime'), NextAlertAllowedAt(lastAlertTime)) ]_vars

-----------------------------------------------------------------------------
(* Rejected settings updates *)

\* the step handles an update_settings message whose merged settings fail
\* validateSettings
RejectedUpdate ==
    /\ Len(updatesIssued') = Len(updatesIssued) + 1
    /\ ~validateSettingsObject(
            Spread(currentSettings, updatesIssued'[Len(updatesIssued')])).valid

-----------------------------------------------------------------------------
(* Sanitized settings *)

Sanitized == call.fn = "sanitizeSettings" /\ "sanitized" \in DOMAIN ret

\* C35: for every settings object, the object sanitizeSettings returns passes
\* validateSettings, and sanitizing that object again returns an equal object.
C35_SanitizedIsValidAndStable ==
    (Sanitized /\ IsSettingsObject(call.settings))
        => /\ validateSettingsObject(ret.sanitized).valid
           /\ sanitizeSettings(ret.sanitized) = ret.sanitized

\* settings that fail validation were sanitized into different settings
C35_Witness ==
    /\ Sanitized
    /\ IsSettingsObject(call.settings)
    /\ ~validateSettingsObject(call.settings).valid
    /\ "thresholds" \in DOMAIN ret.sanitized
    /\ ret.sanitized.thresholds.headForwardAngle = N(90)

-----------------------------------------------------------------------------
(* Session statistics *)

TimeCounters == {"totalTime", "goodPostureTime", "warningPostureTime", "poorPostureTime"}

\* in every state the session's totalTime is the sum of its good, warning
\* and poor posture times
C36_TotalIsSumOfParts ==
    sessionStats.totalTime
        = sessionStats.goodPostureTime + sessionStats.warningPostureTime
          + sessionStats.poorPostureTime

\* within a session (between two resets by start_monitoring) none of the
\* four time counters decreases
C36_CountersNeverDecrease ==
    [][ sessionStats'.startTime = sessionStats.startTime
        => \A counter \in TimeCounters : sessionStats'[counter] >= sessionStats[counter] ]_vars

\* C36: totalTime is always the sum of the three status times, and no time
\* counter decreases within a session.
C36_SessionStatistics == []C36_TotalIsSumOfParts /\ C36_CountersNeverDecrease

\* a started session has counted time in two different statuses and was saved
C36_Witness ==
    /\ sessionStats.startTime # Null
    /\ sessionStats.totalTime > 0
    /\ Cardinality({ counter \in TimeCounters \ {"totalTime"} :
                        sessionStats[counter] > 0 }) >= 2
    /\ savedSessions >= 1

-----------------------------------------------------------------------------
(* Recorded sessions *)

\* sessions started so far: start_monitoring messages that reset the session
\* statistics and asked for a detection window
SessionsStarted == windowsCreated + pendingCreates

\* no monitoring is active and no browser call is outstanding
MonitoringAtRest ==
    /\ ~isMonitoring
    /\ pendingCreates = 0
    /\ pendingRemoves = <<>>

\* C37: the stored session list never holds more entries than sessions were
\* started, and once monitoring is at rest it holds exactly one entry per
\* started session, whatever start_monitoring and stop_monitoring messages
\* were received.
C37_OneEntryPerSession ==
    /\ savedSessions <= SessionsStarted
    /\ MonitoringAtRest => savedSessions = SessionsStarted

-----------------------------------------------------------------------------
(* One detection window *)

\* C38: at most one detection window exists at any time, counting a window
\* that browser.windows.create has been asked for: a start_monitoring message
\* received while a window exists or is being created creates no second one.
C38_AtMostOneWindow == Cardinality(openWindows) + pendingCreates <= 1

-----------------------------------------------------------------------------
(* The detection page after a camera failure *)

\* C39: once the camera request has failed and the page has entered ERROR, the
\* page is never RUNNING and posts no frame to the worker, whether the worker's
\* READY message arrives before or after the failure.
C39_NoDetectionAfterCameraFailure ==
    pageEnv.cameraFailed
        => /\ manager.state # DetectionState.RUNNING
           /\ pageEnv.framesAfterFailure = 0

====
